---- MODULE Spec2Model ----
(***************************************************************************)
(* Model of the street-routing-bc repository.                              *)
(*                                                                         *)
(*   Part I  - the parallel batch routing engine of                        *)
(*             production_simulation.py (calculate_chunk, the pool and     *)
(*             the imap_unordered collection loop).  Specification: Spec.  *)
(*   Part II - the graph-construction pipeline of factory_analysis.py      *)
(*             (topology, directionality, purge, consolidation guard,      *)
(*             physics).  Specification: SpecPipe.                         *)
(*   Part III - the selection among parallel edges.  Specification:        *)
(*             SpecSelect.                                                 *)
(*   Part IV - the consolidation guard on fragmented graphs.               *)
(*             Specifications: SpecGuard, SpecGuardLive.                   *)
(*   Part V  - the paged download of nrn_data_loader.py                    *)
(*             (fetch_layer_data, fetch_alleyways, load_and_merge_all).    *)
(*             Specification: SpecFetch.                                   *)
(*                                                                         *)
(* Units.  Floats are modelled in fixed point: coordinates and length_m   *)
(* in 0.001 m, edge lengths in 0.01 m, travel times in 0.001 min, speeds   *)
(* in 0.1 km/h, distances in 0.00001 km (so that d / 1000 of a sum of      *)
(* lengths in 0.01 m keeps its digits).  Python                            *)
(* indices are 0-based; sequences here are 1-based, slot i+1 standing for  *)
(* trips_df row i.                                                         *)
(***************************************************************************)
EXTENDS Integers, Sequences, FiniteSets, TLC

(***************************************************************************)
(* Bounds of the model                                                     *)
(***************************************************************************)
\* number of queries of a batch (TOTAL_TRIPS of the run that is modelled)
MaxTrips == 3
\* largest pool size tried (NUM_CORES ranges over 1..MaxCores)
MaxCores == 2
\* number of worker failures (exception outside the try, crash) per batch
MaxFaults == 1

(***************************************************************************)
(* Part I. Batch routing engine                                            *)
(***************************************************************************)

\* np.nan, the null distance / time (all real distances and times are >= 0)
NaN == -1
\* None, the null route (every real route has at least one node)
None == << >>
\* a node id that is in no graph of the model (a malformed query names it)
MissingNode == 9

\* ---- the routable graph as loaded from BC_GOLDEN_REPAIRED.graphml ------
\* An edge is [u, v, key, length, travel_time]; parallel edges differ in key.
RoutingNodes == 0 .. 3

GraphA ==
  [nodes |-> RoutingNodes,
   edges |-> { [u |-> 0, v |-> 1, key |-> 0, length |-> 72900,  travel_time |-> 1094],
               [u |-> 0, v |-> 1, key |-> 1, length |-> 80000,  travel_time |-> 2000],
               [u |-> 1, v |-> 2, key |-> 0, length |-> 72900,  travel_time |-> 729],
               [u |-> 0, v |-> 2, key |-> 0, length |-> 100000, travel_time |-> 3000],
               [u |-> 2, v |-> 3, key |-> 0, length |-> 50000,  travel_time |-> 500] }]

GraphB ==
  [nodes |-> RoutingNodes,
   edges |-> { [u |-> 0, v |-> 1, key |-> 0, length |-> 72900,  travel_time |-> 1094],
               [u |-> 1, v |-> 2, key |-> 0, length |-> 72900,  travel_time |-> 729],
               [u |-> 1, v |-> 2, key |-> 1, length |-> 60000,  travel_time |-> 450],
               [u |-> 0, v |-> 2, key |-> 0, length |-> 100000, travel_time |-> 1000],
               [u |-> 2, v |-> 0, key |-> 0, length |-> 100000, travel_time |-> 1000],
               [u |-> 3, v |-> 0, key |-> 0, length |-> 40000,  travel_time |-> 400] }]

\* the graph of test_distance_calculation (test_distance_fix.py): three
\* collinear segments with safe_speed 40, 60 and 110; node n of the test is
\* node 4 - n here.  Projected, each segment is 728.49 m long, and the stored
\* travel_time is round(length / 1000 / speed * 60, 3): 1.093, 0.728 and
\* 0.397 minutes
GraphC ==
  [nodes |-> RoutingNodes,
   edges |-> { [u |-> 3, v |-> 2, key |-> 0, length |-> 72849,  travel_time |-> 1093],
               [u |-> 2, v |-> 1, key |-> 0, length |-> 72849,  travel_time |-> 728],
               [u |-> 1, v |-> 0, key |-> 0, length |-> 72849,  travel_time |-> 397] }]

Graphs == {GraphA, GraphB, GraphC}

\* the (orig_node, dest_node) pairs a trips_df row may hold: reachable over
\* several hops, reachable or not depending on the graph, same node, and a
\* pair naming a node id that is not in the graph
Queries == { <<0, 2>>, <<3, 0>>, <<2, 3>>, <<1, 1>>, <<0, MissingNode>> }

VARIABLES
  G,              \* the graph shared by the workers and the collector
  trips_df,       \* sequence of <<orig_node, dest_node>>, row i at i+1
  CHUNK_SIZE,
  NUM_CORES,
  task,           \* task[c]: state of chunk c in the pool
  outq,           \* results in completion order, not yet collected
  all_distances,
  all_times,
  all_routes,
  completed,
  visits,         \* visits[i]: how many collected chunks named slot i
  arrival,        \* chunk numbers in the order the loop received them
  faults,         \* worker failures so far
  successful,     \* report: number of non-null distances
  pc              \* "collecting", "report", "done", "aborted"

routeVars == << G, trips_df, CHUNK_SIZE, NUM_CORES, task, outq, all_distances,
           all_times, all_routes, completed, visits, arrival, faults, successful,
           pc >>

\* ---- state of the graph-construction pipeline (Part II) ------------------
VARIABLES
  roads_file,     \* the rows of the ROADSEG layer in the GPKG file (only read)
  stage,          \* the section of factory_analysis.py that has completed
  gdf_roads,      \* the segment table, one row per segment, in input order
  G_nodes,        \* node id -> <<x, y>> of the graph under construction
  G_edges,        \* the edges of the graph under construction
  G_order,        \* the node ids in the order of G.nodes (insertion order)
  add_calls,      \* the add_edge calls of the directionality loop, in order
  consolidation   \* what section 6 logged: "skipped", "complete" or "failed"

pipeVars == << roads_file, stage, gdf_roads, G_nodes, G_order, G_edges, add_calls,
              consolidation >>

\* the pipeline is not part of a routing run
PipeIdle ==
  /\ roads_file = << >>
  /\ stage = "idle"
  /\ gdf_roads = << >>
  /\ G_nodes = << >>
  /\ G_order = << >>
  /\ G_edges = << >>
  /\ add_calls = << >>
  /\ consolidation = "pending"

\* ---- state of the parallel-edge selection (Part III) ----------------------
VARIABLES
  edges,          \* G[u][v]: the parallel edges of one hop, in dictionary order
  best_key,       \* the key min() returned
  hop,            \* what the hop added to d and t
  best_edges,     \* the flattening dictionary's entry for (u, v)
  cursor,         \* the next edge of the flattening loop
  sel_pc          \* "start", "picked", "flattening", "flat"

selVars == << edges, best_key, hop, best_edges, cursor, sel_pc >>

\* no selection is under way
SelIdle ==
  /\ edges = << >>
  /\ best_key = << >>
  /\ hop = << >>
  /\ best_edges = << >>
  /\ cursor = 1
  /\ sel_pc = "idle"

\* ---- state of the paged download (Part V) ---------------------------------
VARIABLES
  layer,          \* the MapServer layer: [total, maxRecordCount]
  max_retries,    \* the argument of fetch_layer_data
  max_rec,        \* the page size asked for
  offset,         \* resultOffset of the page being requested
  all_features,   \* the features received; a feature is its position in the layer
  attempt,        \* the loop variable of `for attempt in range(max_retries)`
  pages,          \* the feature lists of the pages received, in order
  requests_sent,  \* data requests made so far
  failed,         \* data requests that raised
  page_tries,     \* requests made so far for the page at `offset`
  info_ok,        \* whether the layer information was read
  fetched,        \* what fetch_layer_data returned
  gdf_merged,     \* the outcome of step 3 of load_and_merge_all
  fetch_pc        \* "info", "page", "returned", "raised", "merged", "crashed"

fetchVars == << layer, max_retries, max_rec, offset, all_features, attempt, pages,
                requests_sent, failed, page_tries, info_ok, fetched, gdf_merged,
                fetch_pc >>

\* no download is under way
FetchIdle ==
  /\ layer = [total |-> 0, maxRecordCount |-> 1]
  /\ max_retries = 1
  /\ max_rec = 1
  /\ offset = 0
  /\ all_features = << >>
  /\ attempt = 0
  /\ pages = << >>
  /\ requests_sent = 0
  /\ failed = 0
  /\ page_tries = 0
  /\ info_ok = FALSE
  /\ fetched = << >>
  /\ gdf_merged = << >>
  /\ fetch_pc = "idle"

vars == << routeVars, pipeVars, selVars, fetchVars >>

TOTAL_TRIPS == Len(trips_df)

\* ---- pure helpers -------------------------------------------------------
RECURSIVE SumSeq(_)
SumSeq(s) == IF s = << >> THEN 0 ELSE Head(s) + SumSeq(Tail(s))

Min2(a, b) == IF a <= b THEN a ELSE b

SetMin(S) == CHOOSE x \in S : \A y \in S : x <= y

\* G[u][v]: the parallel edges from u to v
EdgesBetween(g, u, v) == { e \in g.edges : e.u = u /\ e.v = v }

\* ---- ox.shortest_path / nx.shortest_path (weight = 'travel_time') --------
\* networkx's weight of a hop of a multigraph: the least weight among the
\* parallel edges
HopWeight(g, u, v) == SetMin({ e.travel_time : e \in EdgesBetween(g, u, v) })

\* node sequences without repetition that follow edges of g from o to d
SimplePaths(g, o, d) ==
  { p \in UNION { [1 .. n -> g.nodes] : n \in 1 .. Cardinality(g.nodes) } :
      /\ p[1] = o
      /\ p[Len(p)] = d
      /\ \A i, j \in 1 .. Len(p) : i # j => p[i] # p[j]
      /\ \A i \in 1 .. Len(p) - 1 : EdgesBetween(g, p[i], p[i + 1]) # {} }

PathCost(g, p) == SumSeq([i \in 1 .. Len(p) - 1 |-> HopWeight(g, p[i], p[i + 1])])

\* nx.shortest_path raises NodeNotFound when an endpoint is not in the graph
NodeNotFound(g, q) == q[1] \notin g.nodes \/ q[2] \notin g.nodes

\* osmnx _single_shortest_path: the Dijkstra path, None on NetworkXNoPath.
\* Only called for endpoints in the graph.  (The graphs of the model have a
\* unique cheapest path for every pair, so Dijkstra's tie-break is not
\* modelled.)
SingleShortestPath_FewestHops(g, q) ==
  \* the bug: the search ignores the weight and minimises the number of hops
  LET ps == SimplePaths(g, q[1], q[2])
  IN  IF ps = {} THEN None
      ELSE CHOOSE p \in ps : \A r \in ps : Len(p) <= Len(r)

SingleShortestPath(g, q) ==
  LET ps == SimplePaths(g, q[1], q[2])
  IN  IF ps = {} THEN None
      ELSE CHOOSE p \in ps : \A r \in ps : PathCost(g, p) <= PathCost(g, r)

\* the routes of every (graph, query), computed once
RouteTable ==
  [g \in Graphs |->
     [q \in { x \in Queries : ~NodeNotFound(g, x) } |-> SingleShortestPath(g, q)]]

\* ox.shortest_path over the rows of a chunk: the list of routes; a
\* NodeNotFound raised for any row propagates out of the whole call, and
\* calculate_chunk's except clause replaces the whole list by Nones
ChunkRoutes_NoPathRaises(g, trips, indices) ==
  \* the bug: NetworkXNoPath is not caught per query and empties the chunk
  IF \E i \in 1 .. Len(indices) :
        \/ NodeNotFound(g, trips[indices[i]])
        \/ RouteTable[g][trips[indices[i]]] = None
  THEN [i \in 1 .. Len(indices) |-> None]
  ELSE [i \in 1 .. Len(indices) |-> RouteTable[g][trips[indices[i]]]]

ChunkRoutes(g, trips, indices) ==
  IF \E i \in 1 .. Len(indices) : NodeNotFound(g, trips[indices[i]])
  THEN [i \in 1 .. Len(indices) |-> None]
  ELSE [i \in 1 .. Len(indices) |-> RouteTable[g][trips[indices[i]]]]

BestEdge_Slowest(g, u, v) ==
  \* the bug: max() instead of min()
  LET es   == EdgesBetween(g, u, v)
      best == { e \in es : \A f \in es : e.travel_time >= f.travel_time }
  IN  CHOOSE e \in best : \A f \in best : e.key <= f.key

\* min(edges, key=travel_time): the least travel_time, the first such key
BestEdge(g, u, v) ==
  LET es   == EdgesBetween(g, u, v)
      best == { e \in es : \A f \in es : e.travel_time <= f.travel_time }
  IN  CHOOSE e \in best : \A f \in best : e.key <= f.key

\* d / 1000 for a route: sum of the selected edges' lengths (0.01 m), read
\* as 0.00001 km
RouteDistance(g, route) ==
  SumSeq([i \in 1 .. Len(route) - 1 |-> BestEdge(g, route[i], route[i + 1]).length])

RouteTime(g, route) ==
  SumSeq([i \in 1 .. Len(route) - 1 |-> BestEdge(g, route[i], route[i + 1]).travel_time])

\* calculate_chunk(indices): (indices, dist_list, time_list, valid_routes)
calculate_chunk(g, trips, indices) ==
  LET routes == ChunkRoutes(g, trips, indices)
  IN  [ idx_list |-> indices,
        d_list   |-> [i \in 1 .. Len(indices) |->
                        IF routes[i] = None THEN NaN ELSE RouteDistance(g, routes[i])],
        t_list   |-> [i \in 1 .. Len(indices) |->
                        IF routes[i] = None THEN NaN ELSE RouteTime(g, routes[i])],
        r_list   |-> routes,
        ok       |-> TRUE ]

\* ---- chunking -----------------------------------------------------------
\* chunks = [indices[i:i + CHUNK_SIZE] for i in range(0, len(indices), CHUNK_SIZE)]
NumChunks(n, size) == (n + size - 1) \div size

Chunk(n, size, c) ==
  [k \in 1 .. (Min2(c * size, n) - (c - 1) * size) |-> (c - 1) * size + k]

Chunks(n, size) == [c \in 1 .. NumChunks(n, size) |-> Chunk(n, size, c)]

chunks == Chunks(TOTAL_TRIPS, CHUNK_SIZE)

\* the chunk a returned idx_list belongs to
ChunkOf(idx_list) == ((idx_list[1] - 1) \div CHUNK_SIZE) + 1

\* ---- the collection loop body (lines 147-152) ---------------------------
\* for i, idx in enumerate(idx_list): if d_list[i] is not nan: old[idx] = vals[i]
\* (the last i naming a slot wins, as in the loop).  A NaN distance leaves the
\* slot as pre-sized; where the identity test lets an unpickled NaN through,
\* the values stored are NaN, NaN and None, the slot's contents already.
WriteBack_ByArrival(old, idx_list, d_list, vals) ==
  \* the bug: old[i] = vals[i], the position in the chunk used as the slot
  [s \in 1 .. Len(old) |->
     IF s <= Len(idx_list) /\ d_list[s] # NaN THEN vals[s] ELSE old[s]]

WriteBack(old, idx_list, d_list, vals) ==
  [s \in 1 .. Len(old) |->
     LET hits == { i \in 1 .. Len(idx_list) : idx_list[i] = s /\ d_list[i] # NaN }
     IN  IF hits = {} THEN old[s]
         ELSE vals[CHOOSE i \in hits : \A j \in hits : j <= i]]

\* number of idx_list entries that name slot s
Named(idx_list, s) == Cardinality({ i \in 1 .. Len(idx_list) : idx_list[i] = s })

Running == { c \in DOMAIN task : task[c] = "running" }

\* ---- Init: the state at line 144, before the pool starts -----------------
Init ==
  /\ G \in Graphs
  /\ trips_df \in [1 .. MaxTrips -> Queries]
  /\ CHUNK_SIZE \in 1 .. MaxTrips
  /\ NUM_CORES \in 1 .. MaxCores
  /\ task = [c \in 1 .. NumChunks(MaxTrips, CHUNK_SIZE) |-> "queued"]
  /\ outq = << >>
  /\ all_distances = [i \in 1 .. MaxTrips |-> NaN]
  /\ all_times = [i \in 1 .. MaxTrips |-> NaN]
  /\ all_routes = [i \in 1 .. MaxTrips |-> None]
  /\ completed = 0
  /\ visits = [i \in 1 .. MaxTrips |-> 0]
  /\ arrival = << >>
  /\ faults = 0
  /\ successful = 0
  /\ pc = "collecting"
  /\ PipeIdle
  /\ SelIdle
  /\ FetchIdle

\* the pool hands the next queued chunk (in submission order) to a free worker
Dispatch(c) ==
  /\ pc = "collecting"
  /\ task[c] = "queued"
  /\ \A b \in DOMAIN task : b < c => task[b] # "queued"
  /\ Cardinality(Running) < NUM_CORES
  /\ task' = [task EXCEPT ![c] = "running"]
  /\ UNCHANGED << G, trips_df, CHUNK_SIZE, NUM_CORES, outq, all_distances,
                  all_times, all_routes, completed, visits, arrival, faults, successful, pc >>
  /\ UNCHANGED << pipeVars, selVars, fetchVars >>

\* a worker finishes calculate_chunk(chunks[c]) and its result is queued
WorkerReturn(c) ==
  /\ pc = "collecting"
  /\ task[c] = "running"
  /\ task' = [task EXCEPT ![c] = "returned"]
  /\ outq' = Append(outq, calculate_chunk(G, trips_df, chunks[c]))
  /\ UNCHANGED << G, trips_df, CHUNK_SIZE, NUM_CORES, all_distances, all_times,
                  all_routes, completed, visits, arrival, faults, successful, pc >>
  /\ UNCHANGED << pipeVars, selVars, fetchVars >>

\* an exception raised in calculate_chunk outside its try block (lines
\* 108-130 are unguarded): the pool returns it in place of the result
WorkerRaise(c) ==
  /\ pc = "collecting"
  /\ task[c] = "running"
  /\ faults < MaxFaults
  /\ faults' = faults + 1
  /\ task' = [task EXCEPT ![c] = "raised"]
  /\ outq' = Append(outq, [ idx_list |-> chunks[c], d_list |-> << >>,
                            t_list |-> << >>, r_list |-> << >>, ok |-> FALSE ])
  /\ UNCHANGED << G, trips_df, CHUNK_SIZE, NUM_CORES, all_distances, all_times,
                  all_routes, completed, visits, arrival, successful, pc >>
  /\ UNCHANGED << pipeVars, selVars, fetchVars >>

\* a worker process dies while running chunk c: the pool starts a new worker,
\* the task and its result are lost
WorkerCrash(c) ==
  /\ pc = "collecting"
  /\ task[c] = "running"
  /\ faults < MaxFaults
  /\ faults' = faults + 1
  /\ task' = [task EXCEPT ![c] = "lost"]
  /\ UNCHANGED << G, trips_df, CHUNK_SIZE, NUM_CORES, outq, all_distances,
                  all_times, all_routes, completed, visits, arrival, successful, pc >>
  /\ UNCHANGED << pipeVars, selVars, fetchVars >>

Collect_CountsChunks ==
  \* the bug: completed += 1 per chunk instead of completed += len(idx_list)
  /\ pc = "collecting"
  /\ outq # << >>
  /\ Head(outq).ok
  /\ LET msg == Head(outq)
     IN  /\ all_distances' = WriteBack(all_distances, msg.idx_list, msg.d_list, msg.d_list)
         /\ all_times' = WriteBack(all_times, msg.idx_list, msg.d_list, msg.t_list)
         /\ all_routes' = WriteBack(all_routes, msg.idx_list, msg.d_list, msg.r_list)
         /\ visits' = [s \in 1 .. Len(visits) |-> visits[s] + Named(msg.idx_list, s)]
         /\ arrival' = Append(arrival, ChunkOf(msg.idx_list))
         /\ completed' = completed + 1
         /\ task' = [task EXCEPT ![ChunkOf(msg.idx_list)] = "collected"]
         /\ pc' = IF \A c \in DOMAIN task' : task'[c] = "collected"
                  THEN "report" ELSE "collecting"
  /\ outq' = Tail(outq)
  /\ UNCHANGED << G, trips_df, CHUNK_SIZE, NUM_CORES, faults, successful >>
  /\ UNCHANGED << pipeVars, selVars, fetchVars >>

\* one iteration of `for ... in pool.imap_unordered(calculate_chunk, chunks)`
Collect ==
  /\ pc = "collecting"
  /\ outq # << >>
  /\ Head(outq).ok
  /\ LET msg == Head(outq)
     IN  /\ all_distances' = WriteBack(all_distances, msg.idx_list, msg.d_list, msg.d_list)
         /\ all_times' = WriteBack(all_times, msg.idx_list, msg.d_list, msg.t_list)
         /\ all_routes' = WriteBack(all_routes, msg.idx_list, msg.d_list, msg.r_list)
         /\ visits' = [s \in 1 .. Len(visits) |-> visits[s] + Named(msg.idx_list, s)]
         /\ arrival' = Append(arrival, ChunkOf(msg.idx_list))
         /\ completed' = completed + Len(msg.idx_list)
         /\ task' = [task EXCEPT ![ChunkOf(msg.idx_list)] = "collected"]
         \* the iterator is exhausted once every task's result was yielded
         /\ pc' = IF \A c \in DOMAIN task' : task'[c] = "collected"
                  THEN "report" ELSE "collecting"
  /\ outq' = Tail(outq)
  /\ UNCHANGED << G, trips_df, CHUNK_SIZE, NUM_CORES, faults, successful >>
  /\ UNCHANGED << pipeVars, selVars, fetchVars >>

\* the iterator re-raises a worker's exception in the parent: the for loop
\* and the with block are left, the pool is terminated, the script ends
CollectError ==
  /\ pc = "collecting"
  /\ outq # << >>
  /\ ~Head(outq).ok
  /\ pc' = "aborted"
  /\ outq' = Tail(outq)
  /\ UNCHANGED << G, trips_df, CHUNK_SIZE, NUM_CORES, task, all_distances,
                  all_times, all_routes, completed, visits, arrival, faults, successful >>
  /\ UNCHANGED << pipeVars, selVars, fetchVars >>

\* section 6: successful = trips_df['distance_km'].notna().sum()
Report ==
  /\ pc = "report"
  /\ successful' = Cardinality({ i \in 1 .. Len(all_distances) : all_distances[i] # NaN })
  /\ pc' = "done"
  /\ UNCHANGED << G, trips_df, CHUNK_SIZE, NUM_CORES, task, outq, all_distances,
                  all_times, all_routes, completed, visits, arrival, faults >>
  /\ UNCHANGED << pipeVars, selVars, fetchVars >>

Next ==
  \/ \E c \in DOMAIN task : Dispatch(c)
  \/ \E c \in DOMAIN task : WorkerReturn(c)
  \/ \E c \in DOMAIN task : WorkerRaise(c)
  \/ \E c \in DOMAIN task : WorkerCrash(c)
  \/ Collect
  \/ CollectError
  \/ Report

Spec == Init /\ [][Next]_vars

\* ---- the batch when every chunk computation returns -----------------------
\* a routable pair and a pair that has a path in GraphA only
BatchQueries == { <<0, 2>>, <<2, 3>> }

InitBatch ==
  /\ Init
  /\ trips_df \in [1 .. MaxTrips -> BatchQueries]

\* no worker raises or dies: every calculate_chunk call returns its result
NextBatch ==
  \/ \E c \in DOMAIN task : Dispatch(c)
  \/ \E c \in DOMAIN task : WorkerReturn(c)
  \/ Collect
  \/ Report

SpecBatch == InitBatch /\ [][NextBatch]_vars

\* the pool's task handler gives a queued chunk to an idle worker, a worker
\* finishes the chunk it runs, the parent's for loop takes the next result
\* of the iterator, and the script goes on to its report
SpecBatchLive ==
  /\ SpecBatch
  /\ WF_vars(\E c \in DOMAIN task : Dispatch(c))
  /\ WF_vars(\E c \in DOMAIN task : WorkerReturn(c))
  /\ WF_vars(Collect)
  /\ WF_vars(Report)

(***************************************************************************)
(* Part I. Claims                                                          *)
(***************************************************************************)
Slots == 1 .. TOTAL_TRIPS

\* the batch left the collection loop normally
Collected == pc \in {"report", "done"}

\* what the final table holds for slot s
Slot(s) == << all_distances[s], all_times[s], all_routes[s] >>

NullResult == << NaN, NaN, None >>

\* position of slot s in an index list (0 if absent)
PosIn(indices, s) ==
  IF \E i \in 1 .. Len(indices) : indices[i] = s
  THEN CHOOSE i \in 1 .. Len(indices) : indices[i] = s
  ELSE 0

\* the (distance, time, route) that calculate_chunk(indices) returns for slot s
ChunkAnswer(g, trips, indices, s) ==
  LET r == calculate_chunk(g, trips, indices)
      i == PosIn(indices, s)
  IN  << r.d_list[i], r.t_list[i], r.r_list[i] >>

\* the chunk of a batch of n queries that holds slot s
ChunkHolding(n, size, s) == Chunk(n, size, ((s - 1) \div size) + 1)

\* the result table of a whole batch, as a function of its inputs
BatchResult(g, trips, size) ==
  [s \in 1 .. Len(trips) |-> ChunkAnswer(g, trips, ChunkHolding(Len(trips), size, s), s)]

\* the result of a query routed on its own
AloneResult(g, q) ==
  IF NodeNotFound(g, q) THEN NullResult
  ELSE LET route == RouteTable[g][q]
       IN  IF route = None THEN NullResult
           ELSE << RouteDistance(g, route), RouteTime(g, route), route >>

Unreachable(g, q) == ~NodeNotFound(g, q) /\ RouteTable[g][q] = None

\* the chunks were collected in an order other than the submission order
OutOfOrder == \E i \in 1 .. Len(arrival) - 1 : arrival[i] > arrival[i + 1]

\* C1: once every chunk is collected, the result lists have one slot per
\* submitted query, every slot was named by exactly one collected chunk, and
\* slot i holds what calculate_chunk computed for query i - a route from
\* query i's origin to query i's destination, or null - whatever the order in
\* which the chunks completed.
C1_IndexAligned ==
  Collected =>
    /\ Len(all_distances) = TOTAL_TRIPS
    /\ Len(all_times) = TOTAL_TRIPS
    /\ Len(all_routes) = TOTAL_TRIPS
    /\ completed = TOTAL_TRIPS
    /\ \A s \in Slots :
         /\ visits[s] = 1
         /\ Slot(s) = ChunkAnswer(G, trips_df, ChunkHolding(TOTAL_TRIPS, CHUNK_SIZE, s), s)
         /\ all_routes[s] # None =>
              /\ all_routes[s][1] = trips_df[s][1]
              /\ all_routes[s][Len(all_routes[s])] = trips_df[s][2]
              /\ all_distances[s] = RouteDistance(G, all_routes[s])
              /\ all_times[s] = RouteTime(G, all_routes[s])

C1_Witness ==
  /\ pc = "done"
  /\ OutOfOrder
  /\ \E s, r \in Slots : /\ all_routes[s] # None
                         /\ all_routes[r] # None
                         /\ all_routes[s] # all_routes[r]

\* the permutations of the submission order
Perms == { f \in [Slots -> Slots] : \A i, j \in Slots : i # j => f[i] # f[j] }

\* C2: the same queries submitted in another order get, query by query, the
\* same result (the run reached here against the batch that submits
\* trips_df[f[1]], trips_df[f[2]], ... instead).
C2_Original ==
  Collected =>
    \A f \in Perms :
      LET other == BatchResult(G, [j \in Slots |-> trips_df[f[j]]], CHUNK_SIZE)
      IN  \A j \in Slots : other[j] = Slot(f[j])

\* C3: the per-query results do not depend on CHUNK_SIZE (nor on NUM_CORES):
\* the table reached here equals the table of the same batch for every other
\* chunk size.
C3_Original ==
  Collected =>
    \A size \in 1 .. TOTAL_TRIPS :
      \A s \in Slots : Slot(s) = BatchResult(G, trips_df, size)[s]

\* C4: a query between two nodes of the graph with no connecting directed
\* path gets the null result, its chunk returns normally, and every other
\* query of its chunk gets what calculate_chunk returns for the chunk without
\* the unreachable query.
C4_NoPathIsNull ==
  Collected =>
    \A s \in Slots :
      Unreachable(G, trips_df[s]) =>
        /\ Slot(s) = NullResult
        /\ LET own  == ChunkHolding(TOTAL_TRIPS, CHUNK_SIZE, s)
               rest == SelectSeq(own, LAMBDA x : x # s)
           IN  \A i \in 1 .. Len(rest) :
                 Slot(rest[i]) = ChunkAnswer(G, trips_df, rest, rest[i])

C4_Witness ==
  /\ pc = "done"
  /\ \E s, r \in Slots :
       /\ s # r
       /\ Unreachable(G, trips_df[s])
       /\ PosIn(ChunkHolding(TOTAL_TRIPS, CHUNK_SIZE, s), r) # 0
       /\ all_routes[r] # None
       /\ Len(all_routes[r]) >= 2

\* C5: a query naming a node id that is not in the graph gets the null
\* result and every other query - of its chunk and of the other chunks -
\* gets its normally computed result; no exception leaves the batch.
C5_Original ==
  /\ (faults = 0 => pc # "aborted")
  /\ Collected =>
       \A s \in Slots : Slot(s) = AloneResult(G, trips_df[s])

\* the batch hangs: a task was lost and nothing is left to collect
BatchHangs ==
  /\ pc = "collecting"
  /\ outq = << >>
  /\ \E c \in DOMAIN task : task[c] = "lost"
  /\ \A c \in DOMAIN task : task[c] \in {"lost", "collected"}

\* C6: a worker failure while processing a chunk does not take down the
\* batch: the failure is not propagated and the loop does not wait forever.
C6_Original == pc # "aborted" /\ ~BatchHangs

(***************************************************************************)
(* Part II. Graph-construction pipeline (factory_analysis.py)              *)
(***************************************************************************)
\* largest number of segments in the input table
MaxSegs == 2

\* ---- strings ------------------------------------------------------------
\* TRAFFICDIR values are sequences of characters, so that str.title() is a
\* computation on them.
LowerCase == << "a", "b", "c", "d", "e", "f", "g", "h", "i", "j", "k", "l", "m",
               "n", "o", "p", "q", "r", "s", "t", "u", "v", "w", "x", "y", "z" >>

UpperCase == << "A", "B", "C", "D", "E", "F", "G", "H", "I", "J", "K", "L", "M",
               "N", "O", "P", "Q", "R", "S", "T", "U", "V", "W", "X", "Y", "Z" >>

IsLower(c) == \E i \in 1 .. 26 : LowerCase[i] = c

IsUpper(c) == \E i \in 1 .. 26 : UpperCase[i] = c

IsCased(c) == IsLower(c) \/ IsUpper(c)

ToUpper(c) == IF IsLower(c) THEN UpperCase[CHOOSE i \in 1 .. 26 : LowerCase[i] = c] ELSE c

ToLower(c) == IF IsUpper(c) THEN LowerCase[CHOOSE i \in 1 .. 26 : UpperCase[i] = c] ELSE c

\* str.title(): a cased character is upper-cased when it follows an uncased
\* one (or starts the string) and lower-cased otherwise
Title(str) ==
  [i \in 1 .. Len(str) |->
     IF i = 1 \/ ~IsCased(str[i - 1]) THEN ToUpper(str[i]) ELSE ToLower(str[i])]

S_BothDirections == << "B", "o", "t", "h", " ", "D", "i", "r", "e", "c", "t", "i", "o", "n", "s" >>
S_Both == << "B", "o", "t", "h" >>
S_Unknown == << "U", "n", "k", "n", "o", "w", "n" >>
S_SameDirection == << "S", "a", "m", "e", " ", "D", "i", "r", "e", "c", "t", "i", "o", "n" >>
S_Positive == << "P", "o", "s", "i", "t", "i", "v", "e" >>
S_OppositeDirection == << "O", "p", "p", "o", "s", "i", "t", "e", " ", "D", "i", "r", "e", "c", "t", "i", "o", "n" >>
S_Negative == << "N", "e", "g", "a", "t", "i", "v", "e" >>
S_Bidirectional == << "B", "i", "d", "i", "r", "e", "c", "t", "i", "o", "n", "a", "l" >>
S_Forward == << "F", "o", "r", "w", "a", "r", "d" >>
S_Reverse == << "R", "e", "v", "e", "r", "s", "e" >>
S_None == << "N", "o", "n", "e" >>
S_Nan == << "N", "a", "n" >>
Raw_both_directions == << "b", "o", "t", "h", " ", "d", "i", "r", "e", "c", "t", "i", "o", "n", "s" >>
Raw_POSITIVE == << "P", "O", "S", "I", "T", "I", "V", "E" >>
Raw_negative == << "n", "e", "g", "a", "t", "i", "v", "e" >>
Raw_one_way == << "o", "n", "e", "-", "w", "a", "y" >>
Raw_nan == << "n", "a", "n" >>

\* ---- section 2, F: attribute normalisation ------------------------------
\* .astype(str).str.title().replace({'None': 'Unknown', 'Nan': 'Unknown'})
TitleReplace(raw) ==
  LET t == Title(raw)
  IN  IF t = S_None \/ t = S_Nan THEN S_Unknown ELSE t

\* .replace(trafficdir_mapping)
trafficdir_mapping(t) ==
  CASE t = S_Both          -> S_BothDirections
    [] t = S_Bidirectional -> S_BothDirections
    [] t = S_Positive      -> S_SameDirection
    [] t = S_Forward       -> S_SameDirection
    [] t = S_Negative      -> S_OppositeDirection
    [] t = S_Reverse       -> S_OppositeDirection
    [] OTHER               -> t

MAJOR_ROAD_CLASSES == { "Freeway", "Expressway", "Arterial", "Collector" }

LOCAL_ROAD_CLASSES == { "Local", "Collector", "Resource", "Ferry" }

\* section 2, I: PAVSURF inferred from PAVSTATUS, then from the road class
InferPavsurf(row) ==
  LET s1 == IF row.PAVSURF = "Unknown" /\ row.PAVSTATUS = "Paved" THEN "Paved"
            ELSE IF row.PAVSURF = "Unknown" /\ row.PAVSTATUS = "Unpaved" THEN "Gravel"
            ELSE row.PAVSURF
  IN  IF s1 = "Unknown" /\ row.ROADCLASS \in MAJOR_ROAD_CLASSES THEN "Paved" ELSE s1

\* section 2, I: an Unknown TRAFFICDIR of a local road becomes Both Directions
InferTrafficdir(t, roadclass) ==
  IF t = S_Unknown /\ roadclass \in LOCAL_ROAD_CLASSES THEN S_BothDirections ELSE t

\* pd.to_numeric(..., errors='coerce').fillna(-1): a missing speed reads -1
MissingSpeed == -1

\* section 2, J: SPEED validation (km/h); only rows of the invalid mask change
ValidateSpeed(speed) ==
  IF speed > 130 THEN MissingSpeed
  ELSE IF speed > 0 /\ speed < 5 THEN 10
  ELSE speed

\* defaults = {...}; .map(defaults).fillna(40)
DefaultSpeed(roadclass) ==
  CASE roadclass = "Freeway"       -> 90
    [] roadclass = "Expressway"    -> 90
    [] roadclass = "Arterial"      -> 60
    [] roadclass = "Collector"     -> 50
    [] roadclass = "Local"         -> 40
    [] roadclass = "Resource"      -> 30
    [] roadclass = "Ferry"         -> 10
    [] roadclass = "Rapid Transit" -> 0
    [] OTHER                       -> 40

\* np.where(SPEED <= 0, default_speeds, SPEED)
SafeSpeed(row) ==
  LET sp == ValidateSpeed(row.SPEED)
  IN  IF sp <= 0 THEN DefaultSpeed(row.ROADCLASS) ELSE sp

\* ---- geometry -----------------------------------------------------------
Abs(x) == IF x < 0 THEN 0 - x ELSE x

\* geometry.length in 0.001 m of a polyline with coordinates in 0.001 m; the
\* polylines of the model run parallel to the axes, so no square root occurs
GeomLength(coords) ==
  SumSeq([i \in 1 .. Len(coords) - 1 |->
            Abs(coords[i + 1][1] - coords[i][1]) + Abs(coords[i + 1][2] - coords[i][2])])

\* coords[::-1]
ReverseCoords(coords) == [i \in 1 .. Len(coords) |-> coords[Len(coords) + 1 - i]]

\* round(c, 1): to the nearest 0.1 m; c is in 0.001 m and non-negative, and no
\* coordinate of the model lies half-way
Round1(c) == ((c + 50) \div 100) * 100

RoundPoint(pt) == << Round1(pt[1]), Round1(pt[2]) >>

\* ---- the input table ----------------------------------------------------
\* Coordinates in 0.001 m (EPSG:3005).  PtA and PtA2 round to the same node;
\* PtNear lies 20 m from PtA; PtOut lies west of the valid envelope.
PtA == << 500000040, 500000000 >>

PtA2 == << 500000020, 500000000 >>

PtB == << 500100000, 500000000 >>

PtBend == << 500100000, 500100000 >>

PtC == << 500100000, 500200084 >>

PtNear == << 500020000, 500000000 >>

\* 0.86 m east of PtBend: a short segment that filter B lets through (more
\* than 0.00001 degrees, which at this latitude is 0.73 m eastwards and
\* 1.11 m northwards)
PtBend2 == << 500100860, 500100000 >>

PtOut == << 199990000, 500000000 >>

PtIn == << 200010000, 500000000 >>

\* a row as read from the ROADSEG layer, after the geometry filters A-D
Row(geom, dir, cls, surf, status, speed) ==
  [ geometry |-> geom, TRAFFICDIR |-> dir, ROADCLASS |-> cls, PAVSURF |-> surf,
    PAVSTATUS |-> status, SPEED |-> speed ]

RowPool ==
  { Row(<< PtA, PtB >>,          Raw_both_directions,  "Local",     "Paved",   "Paved",   MissingSpeed),
    Row(<< PtA, PtB >>,          S_SameDirection,      "Freeway",   "Unknown", "Unknown", 100),
    Row(<< PtB, PtA2 >>,         S_OppositeDirection,  "Freeway",   "Paved",   "Paved",   90),
    Row(<< PtB, PtBend, PtC >>,  S_Unknown,            "Freeway",   "Paved",   "Paved",   150),
    Row(<< PtB, PtBend, PtC >>,  S_None,               "Local",     "Unknown", "Unpaved", 3),
    Row(<< PtA, PtB >>,          Raw_POSITIVE,         "Arterial",  "Paved",   "Paved",   60),
    Row(<< PtC, PtBend, PtB >>,  Raw_negative,         "Resource",  "Gravel",  "Unpaved", 15),
    Row(<< PtB, PtBend, PtC >>,  Raw_one_way,          "Collector", "Unknown", "Unknown", 50),
    Row(<< PtOut, PtIn >>,       S_Both,               "Local",     "Paved",   "Paved",   MissingSpeed),
    Row(<< PtA, PtNear >>,       S_BothDirections,     "Local",     "Paved",   "Paved",   30),
    Row(<< PtB, PtBend, PtC >>,  S_Bidirectional,      "Ferry",     "Water",   "Unknown", MissingSpeed),
    Row(<< PtA, PtB >>,          S_BothDirections,     "Local",     "Water",   "Unknown", MissingSpeed),
    Row(<< PtB, PtBend, PtC >>,  S_SameDirection,      "Collector", "Gravel",  "Paved",   7),
    Row(<< PtA, PtB >>,          S_Unknown,            "Rapid Transit", "Paved", "Paved", MissingSpeed),
    Row(<< PtA, PtB >>,          S_BothDirections,     "Winter",    "Paved",   "Paved",   200),
    Row(<< PtBend, PtBend2 >>,   S_BothDirections,     "Freeway",   "Paved",   "Paved",   110) }

\* ---- section 2 (E-K): lengths and attribute clean-up --------------------
SanitizeRow(row) ==
  LET t == InferTrafficdir(trafficdir_mapping(TitleReplace(row.TRAFFICDIR)), row.ROADCLASS)
  IN  [ geometry   |-> row.geometry,
        length_m   |-> GeomLength(row.geometry),
        TRAFFICDIR |-> t,
        ROADCLASS  |-> row.ROADCLASS,
        PAVSURF    |-> InferPavsurf(row),
        PAVSTATUS  |-> row.PAVSTATUS,
        safe_speed |-> SafeSpeed(row) ]

\* ---- section 3: topology ------------------------------------------------
RECURSIVE Unique(_)
\* pd.unique: the distinct values in order of first appearance
Unique(sq) ==
  IF sq = << >> THEN << >>
  ELSE LET init == Unique(SubSeq(sq, 1, Len(sq) - 1))
           last == sq[Len(sq)]
       IN  IF \E i \in 1 .. Len(init) : init[i] = last THEN init ELSE Append(init, last)

u_coord(row) == RoundPoint(row.geometry[1])

v_coord(row) == RoundPoint(row.geometry[Len(row.geometry)])

\* all_nodes = pd.concat([u_coord, v_coord]).unique()
all_nodes(rows) ==
  Unique([i \in 1 .. Len(rows) |-> u_coord(rows[i])] \o [i \in 1 .. Len(rows) |-> v_coord(rows[i])])

\* node_map = {coord: i for i, coord in enumerate(all_nodes)}
node_map(rows, coord) ==
  (CHOOSE i \in 1 .. Len(all_nodes(rows)) : all_nodes(rows)[i] = coord) - 1

cumcount_Unordered(rows, i) ==
  \* the bug: the group is the unordered pair of end points
  Cardinality({ j \in 1 .. i - 1 :
                  { u_coord(rows[j]), v_coord(rows[j]) } = { u_coord(rows[i]), v_coord(rows[i]) } })

\* groupby(['u', 'v']).cumcount(): the number of earlier rows of the same pair
cumcount(rows, i) ==
  Cardinality({ j \in 1 .. i - 1 :
                  /\ u_coord(rows[j]) = u_coord(rows[i])
                  /\ v_coord(rows[j]) = v_coord(rows[i]) })

TopologyRow(rows, i) ==
  [ u |-> node_map(rows, u_coord(rows[i])),
    v |-> node_map(rows, v_coord(rows[i])),
    key |-> cumcount(rows, i),
    geometry   |-> rows[i].geometry,
    length_m   |-> rows[i].length_m,
    TRAFFICDIR |-> rows[i].TRAFFICDIR,
    ROADCLASS  |-> rows[i].ROADCLASS,
    PAVSURF    |-> rows[i].PAVSURF,
    PAVSTATUS  |-> rows[i].PAVSTATUS,
    safe_speed |-> rows[i].safe_speed ]

\* gdf_nodes: osmid -> (x, y)
TopologyNodes(rows) ==
  [id \in 0 .. Len(all_nodes(rows)) - 1 |-> all_nodes(rows)[id + 1]]

\* ---- networkx MultiDiGraph edges ----------------------------------------
\* The edges of a graph are kept as a sequence in insertion order; an edge is
\* identified by (u, v, key).
Triple(e) == << e.u, e.v, e.key >>

HasEdge(E, t) == \E i \in 1 .. Len(E) : Triple(E[i]) = t

\* G.add_edge(u, v, key, **data): a new edge, or - when (u, v, key) exists -
\* an update of that edge's attributes (every attribute is given, so the old
\* ones are all replaced)
AddEdge(E, e) ==
  IF HasEdge(E, Triple(e))
  THEN [i \in 1 .. Len(E) |-> IF Triple(E[i]) = Triple(e) THEN e ELSE E[i]]
  ELSE Append(E, e)

\* ox.graph_from_gdfs adds the edges row by row with G.add_edge, which adds
\* the end nodes it has not seen, u before v: G.nodes is in the order of first
\* appearance in the edge table, not in the order of the ids
NodeOrder(E) ==
  Unique([i \in 1 .. 2 * Len(E) |-> IF i % 2 = 1 THEN E[(i + 1) \div 2].u ELSE E[i \div 2].v])

\* G.remove_nodes_from(S) keeps the order of the other nodes
OrderWithout(order, S) ==
  LET Kept(n) == n \notin S
  IN  SelectSeq(order, Kept)

\* G.edges(keys=True, data=True) iterates the adjacency: nodes in the order
\* of G.nodes (IterRank takes the place of the edge's node u in it), then the
\* neighbours of a node in the order they were first linked, then the keys in
\* insertion order
FirstLink(E, i) == CHOOSE j \in 1 .. Len(E) :
                     /\ E[j].u = E[i].u /\ E[j].v = E[i].v
                     /\ \A k \in 1 .. j - 1 : ~(E[k].u = E[i].u /\ E[k].v = E[i].v)

IterRank(order, E, i) ==
  LET place == CHOOSE p \in 1 .. Len(order) : order[p] = E[i].u
  IN  (place * (Len(E) + 1) + FirstLink(E, i)) * (Len(E) + 1) + i

EdgeIter(order, E) ==
  [k \in 1 .. Len(E) |->
     E[CHOOSE i \in 1 .. Len(E) :
         Cardinality({ j \in 1 .. Len(E) : IterRank(order, E, j) < IterRank(order, E, i) })
           = k - 1]]

\* ---- section 5: directionality ------------------------------------------
BothWays == { S_BothDirections, S_Both, S_Unknown }

ForwardOnly == { S_SameDirection, S_Positive }

ReverseOnly == { S_OppositeDirection, S_Negative }

\* the edge v -> u with the attributes given
Flipped(e, geom) == [e EXCEPT !.u = e.v, !.v = e.u, !.geometry = geom]

EmitCalls_UnrecognizedOneWay(e) ==
  \* the bug: a value outside the three lists is treated as one-way forward
  LET traffic_dir == Title(e.TRAFFICDIR)
      forward == [src |-> Triple(e), role |-> "forward", edge |-> e]
      reverse_reversed ==
        [src |-> Triple(e), role |-> "reverse", edge |-> Flipped(e, ReverseCoords(e.geometry))]
      reverse_as_is ==
        [src |-> Triple(e), role |-> "reverse", edge |-> Flipped(e, e.geometry)]
  IN  IF traffic_dir \in BothWays THEN << forward, reverse_reversed >>
      ELSE IF traffic_dir \in ForwardOnly THEN << forward >>
      ELSE IF traffic_dir \in ReverseOnly THEN << reverse_as_is >>
      ELSE << forward >>

\* the add_edge calls of one iteration of the loop at line 367, in order
EmitCalls(e) ==
  LET traffic_dir == Title(e.TRAFFICDIR)
      forward == [src |-> Triple(e), role |-> "forward", edge |-> e]
      reverse_reversed ==
        [src |-> Triple(e), role |-> "reverse", edge |-> Flipped(e, ReverseCoords(e.geometry))]
      reverse_as_is ==
        [src |-> Triple(e), role |-> "reverse", edge |-> Flipped(e, e.geometry)]
  IN  IF traffic_dir \in BothWays THEN << forward, reverse_reversed >>
      ELSE IF traffic_dir \in ForwardOnly THEN << forward >>
      ELSE IF traffic_dir \in ReverseOnly THEN << reverse_as_is >>
      ELSE << forward, reverse_reversed >>

RECURSIVE AllCalls(_)
\* the calls of the whole loop over an edge sequence
AllCalls(es) ==
  IF es = << >> THEN << >> ELSE EmitCalls(Head(es)) \o AllCalls(Tail(es))

RECURSIVE ApplyCalls(_, _)
ApplyCalls(E, calls) ==
  IF calls = << >> THEN E ELSE ApplyCalls(AddEdge(E, Head(calls).edge), Tail(calls))

\* ---- section 6: purge ---------------------------------------------------
\* BC Albers valid range, in 0.001 m
XMin == 200000000
XMax == 1900000000
YMin == 300000000
YMax == 1700000000

OutOfBounds(pos) == pos[2] < YMin \/ pos[2] > YMax \/ pos[1] < XMin \/ pos[1] > XMax

nodes_to_remove_YOnly(nodes) ==
  \* the bug: only the y coordinate is tested
  { n \in DOMAIN nodes : nodes[n][2] < YMin \/ nodes[n][2] > YMax }

nodes_to_remove(nodes) == { n \in DOMAIN nodes : OutOfBounds(nodes[n]) }

\* the function f without the keys in S
Without(f, S) == [n \in (DOMAIN f) \ S |-> f[n]]

RemoveNodesEdges_KeepsEdges(E, S) ==
  \* the bug: only the nodes are removed, their edges stay
  E

\* G.remove_nodes_from: the nodes and every edge incident to them go
RemoveNodesEdges(E, S) == SelectSeq(E, LAMBDA e : e.u \notin S /\ e.v \notin S)

\* ---- section 6: consolidation -------------------------------------------
\* the undirected neighbours of a node set S within the nodes N
Linked(E, N, S) ==
  S \cup { n \in N : \E i \in 1 .. Len(E) :
                       \/ (E[i].u = n /\ E[i].v \in S /\ E[i].v \in N)
                       \/ (E[i].v = n /\ E[i].u \in S /\ E[i].u \in N) }

RECURSIVE Closure(_, _, _)
Closure(E, N, S) ==
  IF Linked(E, N, S) = S THEN S ELSE Closure(E, N, Linked(E, N, S))

\* nx.weakly_connected_components of the subgraph induced by the nodes N
WeakComponents(E, N) == { Closure(E, N, {n}) : n \in N }

num_components_Nodes(nodes, E) ==
  \* the bug: the nodes are counted, not the components
  Cardinality(DOMAIN nodes)

\* nx.number_weakly_connected_components(G_proj)
num_components(nodes, E) == Cardinality(WeakComponents(E, DOMAIN nodes))

\* the guard of line 434
ComponentLimit == 50

\* tolerance=15 (line 443), in 0.001 m
Tolerance == 15000

\* the buffers of radius Tolerance around two nodes overlap
BuffersOverlap(p, q) ==
  /\ Abs(p[1] - q[1]) <= 2 * Tolerance
  /\ Abs(p[2] - q[2]) <= 2 * Tolerance
  /\ (p[1] - q[1]) * (p[1] - q[1]) + (p[2] - q[2]) * (p[2] - q[2])
       < (2 * Tolerance) * (2 * Tolerance)

RECURSIVE BufferClosure(_, _)
\* the nodes whose buffers were merged into one polygon with those of S
BufferClosure(nodes, S) ==
  LET T == S \cup { n \in DOMAIN nodes : \E m \in S : BuffersOverlap(nodes[n], nodes[m]) }
  IN  IF T = S THEN S ELSE BufferClosure(nodes, T)

\* osmnx steps 1-3: a cluster is a merged buffer polygon, split into the
\* weakly connected components of the subgraph induced by its nodes
Clusters(nodes, E) ==
  UNION { WeakComponents(E, BufferClosure(nodes, {n})) : n \in DOMAIN nodes }

\* the places in G.nodes of the nodes that are the first of their cluster
Leaders(order, cs) ==
  { i \in 1 .. Len(order) :
      LET c == CHOOSE d \in cs : order[i] \in d
      IN  \A j \in 1 .. i - 1 : order[j] \notin c }

\* factorize(): clusters numbered from 0 in the order in which their first
\* node appears in G.nodes
ClusterLabel(order, nodes, E, n) ==
  LET cs   == Clusters(nodes, E)
      own  == CHOOSE c \in cs : n \in c
      lead == Leaders(order, cs)
      mine == CHOOSE i \in lead : order[i] \in own
  IN  Cardinality({ i \in lead : i < mine })

\* step 5: a single node keeps its position, merged nodes get the centroid
\* (clusters of the model have at most two nodes: the centroid of the merged
\* buffers and the centroid of the points are both the midpoint)
ClusterPoint(nodes, c) ==
  IF Cardinality(c) = 1 THEN nodes[CHOOSE n \in c : TRUE]
  ELSE LET a == SetMin(c)
           b == CHOOSE n \in c : n # a
       IN  << (nodes[a][1] + nodes[b][1]) \div 2, (nodes[a][2] + nodes[b][2]) \div 2 >>

\* the new node l is the cluster with label l, the cluster whose first node
\* is the (l+1)-th leader in G.nodes (see ClusterLabel)
ConsolidatedNodes(order, nodes, E) ==
  LET cs   == Clusters(nodes, E)
      lead == Leaders(order, cs)
  IN  [l \in 0 .. Cardinality(cs) - 1 |->
         LET at == CHOOSE i \in lead : Cardinality({ j \in lead : j < i }) = l
         IN  ClusterPoint(nodes, CHOOSE c \in cs : order[at] \in c)]

RECURSIVE RebuildEdges(_, _, _, _, _)
\* step 6: every edge is re-added between the clusters of its ends with the
\* next free key, unless it would link a cluster to itself (original
\* self-loops are kept)
RebuildEdges(order, nodes, E, todo, H) ==
  IF todo = << >> THEN H
  ELSE LET e  == Head(todo)
           u2 == ClusterLabel(order, nodes, E, e.u)
           v2 == ClusterLabel(order, nodes, E, e.v)
           k2 == Cardinality({ i \in 1 .. Len(H) : H[i].u = u2 /\ H[i].v = v2 })
       IN  IF u2 # v2 \/ e.u = e.v
           THEN RebuildEdges(order, nodes, E, Tail(todo),
                             Append(H, [e EXCEPT !.u = u2, !.v = v2, !.key = k2]))
           ELSE RebuildEdges(order, nodes, E, Tail(todo), H)

\* step 7: the geometry of an edge at a merged node is extended to the merged
\* node's point (prepended at u, appended at v; a loop is only prepended)
Merged(order, nodes, E, l) ==
  Cardinality(CHOOSE c \in Clusters(nodes, E) :
                ClusterLabel(order, nodes, E, SetMin(c)) = l) > 1

ExtendGeometry(order, nodes, E, e) ==
  LET H_nodes == ConsolidatedNodes(order, nodes, E)
      g1 == IF Merged(order, nodes, E, e.u)
            THEN << H_nodes[e.u] >> \o e.geometry ELSE e.geometry
      g2 == IF Merged(order, nodes, E, e.v) /\ e.v # e.u
            THEN g1 \o << H_nodes[e.v] >> ELSE g1
  IN  [e EXCEPT !.geometry = g2]

\* ox.consolidate_intersections(G_proj, tolerance=15, rebuild_graph=True,
\* dead_ends=False): the nodes carry no street_count, so no dead end is
\* dropped; a graph without edges is returned as it is
ConsolidatedEdges(order, nodes, E) ==
  LET H == RebuildEdges(order, nodes, E, EdgeIter(order, E), << >>)
  IN  [i \in 1 .. Len(H) |-> ExtendGeometry(order, nodes, E, H[i])]

\* ---- section 7: physics -------------------------------------------------
\* round(a / b) for a >= 0, b > 0, ties to even
RoundDiv(a, b) ==
  LET q == a \div b
      r == a % b
  IN  IF 2 * r < b THEN q
      ELSE IF 2 * r > b THEN q + 1
      ELSE IF q % 2 = 0 THEN q ELSE q + 1

bad_surfaces == { "Unpaved", "Loose", "Rough", "Gravel", "Dirt", "Earth" }

\* the ferry wait of line 500, in 0.001 min
FerryWait == 30000

\* the forced ferry speed and the sanity floor's value, in 0.1 km/h
FloorSpeed == 100

\* speed in 0.1 km/h after penalty, ferry override and sanity floor
PhysicsSpeed(e) ==
  LET s0 == 10 * e.safe_speed
      s1 == IF e.PAVSTATUS = "Unpaved" \/ e.PAVSURF \in bad_surfaces
            THEN (s0 * 6) \div 10 ELSE s0
      s2 == IF e.ROADCLASS = "Ferry" \/ e.PAVSURF = "Water" THEN FloorSpeed ELSE s1
  IN  IF s2 < 10 THEN FloorSpeed ELSE s2

PhysicsEdge_NoPrecomputedLength(e) ==
  \* the bug: length_m and the geometry are not consulted, the length falls
  \* back to get_val('length', 0)
  LET length == 0
      speed  == PhysicsSpeed(e)
      bonus  == IF e.ROADCLASS = "Ferry" THEN FerryWait ELSE 0
  IN  [ u |-> e.u, v |-> e.v, key |-> e.key,
        length      |-> RoundDiv(length, 10),
        travel_time |-> RoundDiv(3 * length + bonus * 5 * speed, 5 * speed),
        speed_kph   |-> speed,
        ROADCLASS   |-> e.ROADCLASS,
        PAVSURF     |-> e.PAVSURF,
        TRAFFICDIR  |-> e.TRAFFICDIR ]

PhysicsEdge_TimeFromBaseSpeed(e) ==
  \* the bug: the time is computed from the base speed, before the surface
  \* penalty, the ferry override and the floor
  LET length == e.length_m
      speed  == PhysicsSpeed(e)
      base   == IF e.safe_speed < 1 THEN FloorSpeed ELSE 10 * e.safe_speed
      bonus  == IF e.ROADCLASS = "Ferry" THEN FerryWait ELSE 0
  IN  [ u |-> e.u, v |-> e.v, key |-> e.key,
        length      |-> RoundDiv(length, 10),
        travel_time |-> RoundDiv(3 * length + bonus * 5 * base, 5 * base),
        speed_kph   |-> speed,
        ROADCLASS   |-> e.ROADCLASS,
        PAVSURF     |-> e.PAVSURF,
        TRAFFICDIR  |-> e.TRAFFICDIR ]

\* one iteration of the loop at line 457: the attributes are cleared and only
\* length (0.01 m), travel_time (0.001 min), speed_kph (0.1 km/h) and the
\* audit metadata are written back
PhysicsEdge(e) ==
  LET length == e.length_m
      speed  == PhysicsSpeed(e)
      bonus  == IF e.ROADCLASS = "Ferry" THEN FerryWait ELSE 0
  IN  [ u |-> e.u, v |-> e.v, key |-> e.key,
        length      |-> RoundDiv(length, 10),
        travel_time |-> RoundDiv(3 * length + bonus * 5 * speed, 5 * speed),
        speed_kph   |-> speed,
        ROADCLASS   |-> e.ROADCLASS,
        PAVSURF     |-> e.PAVSURF,
        TRAFFICDIR  |-> e.TRAFFICDIR ]

\* ---- the pipeline as a state machine ------------------------------------
\* routing is not part of a pipeline run
RouteIdle ==
  /\ G = [nodes |-> {}, edges |-> {}]
  /\ trips_df = << >>
  /\ CHUNK_SIZE = 1
  /\ NUM_CORES = 1
  /\ task = << >>
  /\ outq = << >>
  /\ all_distances = << >>
  /\ all_times = << >>
  /\ all_routes = << >>
  /\ completed = 0
  /\ visits = << >>
  /\ arrival = << >>
  /\ faults = 0
  /\ successful = 0
  /\ pc = "idle"

\* the table as loaded, after the geometry filters of section 2 (A-D)
InitPipe ==
  /\ stage = "loaded"
  /\ roads_file \in UNION { [1 .. n -> RowPool] : n \in 1 .. MaxSegs }
  /\ gdf_roads = roads_file
  /\ G_nodes = << >>
  /\ G_order = << >>
  /\ G_edges = << >>
  /\ add_calls = << >>
  /\ consolidation = "pending"
  /\ RouteIdle
  /\ SelIdle
  /\ FetchIdle

\* section 2, E-K
Sanitize ==
  /\ stage = "loaded"
  /\ gdf_roads' = [i \in 1 .. Len(gdf_roads) |-> SanitizeRow(gdf_roads[i])]
  /\ stage' = "sanitized"
  /\ UNCHANGED << roads_file, G_nodes, G_order, G_edges, add_calls, consolidation >>
  /\ UNCHANGED << routeVars, selVars, fetchVars >>

\* sections 3 and 4: topology and ox.graph_from_gdfs
BuildTopology ==
  /\ stage = "sanitized"
  /\ gdf_roads' = [i \in 1 .. Len(gdf_roads) |-> TopologyRow(gdf_roads, i)]
  /\ G_nodes' = TopologyNodes(gdf_roads)
  /\ G_edges' = [i \in 1 .. Len(gdf_roads) |-> TopologyRow(gdf_roads, i)]
  /\ G_order' = NodeOrder([i \in 1 .. Len(gdf_roads) |-> TopologyRow(gdf_roads, i)])
  /\ stage' = "topology"
  /\ UNCHANGED << roads_file, add_calls, consolidation, routeVars, selVars, fetchVars >>

\* section 5: the graph is rebuilt edge by edge
HandleDirectionality ==
  /\ stage = "topology"
  /\ add_calls' = AllCalls(EdgeIter(G_order, G_edges))
  /\ G_edges' = ApplyCalls(<< >>, AllCalls(EdgeIter(G_order, G_edges)))
  /\ stage' = "directed"
  /\ UNCHANGED << roads_file, gdf_roads, G_nodes, G_order, consolidation >>
  /\ UNCHANGED << routeVars, selVars, fetchVars >>

\* section 6, first half: nodes outside the valid envelope are removed
Purge ==
  /\ stage = "directed"
  /\ G_nodes' = Without(G_nodes, nodes_to_remove(G_nodes))
  /\ G_order' = OrderWithout(G_order, nodes_to_remove(G_nodes))
  /\ G_edges' = RemoveNodesEdges(G_edges, nodes_to_remove(G_nodes))
  /\ stage' = "purged"
  /\ UNCHANGED << roads_file, gdf_roads, add_calls, consolidation, routeVars, selVars, fetchVars >>

\* section 6, second half: consolidation, skipped above the component limit;
\* an exception of the library call (the call does not return) leaves the
\* unconsolidated graph
Consolidate ==
  /\ stage = "purged"
  /\ \E returned \in BOOLEAN :
       IF num_components(G_nodes, G_edges) > ComponentLimit
       THEN /\ consolidation' = "skipped"
            /\ UNCHANGED << G_nodes, G_order, G_edges >>
       ELSE IF ~returned
       THEN /\ consolidation' = "failed"
            /\ UNCHANGED << G_nodes, G_order, G_edges >>
       ELSE IF G_edges = << >>
       THEN /\ consolidation' = "complete"
            /\ UNCHANGED << G_nodes, G_order, G_edges >>
       ELSE /\ consolidation' = "complete"
            /\ G_nodes' = ConsolidatedNodes(G_order, G_nodes, G_edges)
            \* the rebuilt graph gets its nodes in the order of the labels
            /\ G_order' = [k \in 1 .. Cardinality(Clusters(G_nodes, G_edges)) |-> k - 1]
            /\ G_edges' = ConsolidatedEdges(G_order, G_nodes, G_edges)
  /\ stage' = "consolidated"
  /\ UNCHANGED << roads_file, gdf_roads, add_calls, routeVars, selVars, fetchVars >>

\* section 7: every edge's attributes are replaced
CalculatePhysics ==
  /\ stage = "consolidated"
  /\ G_edges' = [i \in 1 .. Len(G_edges) |-> PhysicsEdge(G_edges[i])]
  /\ stage' = "final"
  /\ UNCHANGED << roads_file, gdf_roads, G_nodes, G_order, add_calls, consolidation >>
  /\ UNCHANGED << routeVars, selVars, fetchVars >>

NextPipe ==
  \/ Sanitize
  \/ BuildTopology
  \/ HandleDirectionality
  \/ Purge
  \/ Consolidate
  \/ CalculatePhysics

SpecPipe == InitPipe /\ [][NextPipe]_vars

(***************************************************************************)
(* Part III. Selection among parallel edges                                *)
(* (production_simulation.py, calculate_chunk; Untitled-1.py, flattening)  *)
(***************************************************************************)
MaxParallel == 3

\* float('inf'): above every travel time
Infinity == 1000000

\* travel times (0.001 min) an edge may carry
Times == { 400, 1000 }

\* the edges a hop may hold: the attribute dictionary of the edge with key k
\* holds a length (0.01 m) and, for most edges, a travel_time
ParallelEdges ==
  { [key |-> k, data |-> [length |-> 5000 + 1000 * k, travel_time |-> t]] :
      k \in 0 .. MaxParallel - 1, t \in Times }
  \cup { [key |-> k, data |-> [length |-> 5000 + 1000 * k]] : k \in 0 .. MaxParallel - 1 }

\* edges[k].get('travel_time', float('inf'))
TravelTimeKey(e) ==
  IF "travel_time" \in DOMAIN e.data THEN e.data.travel_time ELSE Infinity

RECURSIVE MinFold_LastWins(_, _, _)
MinFold_LastWins(es, i, best) ==
  \* the bug: a later edge replaces the candidate when it is as fast
  IF i > Len(es) THEN best
  ELSE IF TravelTimeKey(es[i]) <= TravelTimeKey(es[best])
       THEN MinFold_LastWins(es, i + 1, i)
       ELSE MinFold_LastWins(es, i + 1, best)

RECURSIVE MinFold(_, _, _)
\* Python's min(iterable, key=...): the items are visited in iteration order
\* and the candidate is replaced only by an item whose key is strictly less
MinFold(es, i, best) ==
  IF i > Len(es) THEN best
  ELSE IF TravelTimeKey(es[i]) < TravelTimeKey(es[best])
       THEN MinFold(es, i + 1, i)
       ELSE MinFold(es, i + 1, best)

\* the position in edges of min(edges, key=lambda k: ...)
MinByTravelTime(es) == MinFold(es, 2, 1)

\* float(edge_data.get(attr, 0))
GetOrZero(e, attr) == IF attr \in DOMAIN e.data THEN e.data[attr] ELSE 0

\* one iteration of the flattening loop for the pair (u, v); entry is << >>
\* while (u, v) is not in best_edges and << attributes >> afterwards: the
\* entry is replaced only by a strictly faster edge
FlattenEntry(entry, edge_attributes) ==
  IF entry # << >>
  THEN IF edge_attributes.travel_time < entry[1].travel_time
       THEN << edge_attributes >> ELSE entry
  ELSE << edge_attributes >>

\* a hop with one to MaxParallel parallel edges, their keys distinct
InitSelect ==
  /\ edges \in { es \in UNION { [1 .. n -> ParallelEdges] : n \in 1 .. MaxParallel } :
                   \A i, j \in 1 .. Len(es) : i # j => es[i].key # es[j].key }
  /\ best_key = None
  /\ hop = None
  /\ best_edges = << >>
  /\ cursor = 1
  /\ sel_pc = "start"
  /\ RouteIdle
  /\ PipeIdle
  /\ FetchIdle

\* calculate_chunk, lines 120-125: one hop of a route
PickBest ==
  /\ sel_pc = "start"
  /\ LET edge == edges[MinByTravelTime(edges)]
     IN  /\ best_key' = edge.key
         /\ hop' = [d |-> GetOrZero(edge, "length"), t |-> GetOrZero(edge, "travel_time")]
  /\ sel_pc' = "picked"
  /\ UNCHANGED << edges, best_edges, cursor, routeVars, pipeVars, fetchVars >>

\* the flattening loop, one edge of the pair per step; every edge's time_min
\* has been computed by the loop body before the comparison
FlattenEdge ==
  /\ sel_pc \in {"start", "flattening"}
  /\ \A i \in 1 .. Len(edges) : "travel_time" \in DOMAIN edges[i].data
  /\ cursor <= Len(edges)
  /\ best_edges' = FlattenEntry(best_edges, edges[cursor].data)
  /\ cursor' = cursor + 1
  /\ sel_pc' = IF cursor = Len(edges) THEN "flat" ELSE "flattening"
  /\ UNCHANGED << edges, best_key, hop, routeVars, pipeVars, fetchVars >>

NextSelect ==
  \/ PickBest
  \/ FlattenEdge

SpecSelect == InitSelect /\ [][NextSelect]_vars

(***************************************************************************)
(* Part IV. The consolidation guard on fragmented graphs                   *)
(* (factory_analysis.py, section 6, on tables of many disjoint segments)   *)
(***************************************************************************)
\* a fragmented table has ComponentLimit - MaxOver .. ComponentLimit + MaxOver
\* segments that cross the border of the envelope
MaxOver == 2

\* distance between neighbouring segments of a fragmented table, in 0.001 m
Spacing == 100000

\* the attributes the segments of a fragmented table share
TemplatePool ==
  { Row(<< PtOut, PtIn >>, S_Both,          "Local",    "Paved",  "Paved",   MissingSpeed),
    Row(<< PtOut, PtIn >>, S_SameDirection, "Freeway",  "Paved",  "Paved",   100),
    Row(<< PtOut, PtIn >>, Raw_negative,    "Resource", "Gravel", "Unpaved", 15),
    Row(<< PtOut, PtIn >>, Raw_one_way,     "Ferry",    "Water",  "Unknown", MissingSpeed) }

\* the geometries of the segment that lies inside the envelope, if there is
\* one: its ends 20 m apart (merged by consolidation) or 100 m apart
InnerGeometries == { << PtA, PtNear >>, << PtA, PtB >> }

\* segment k of the table: from 10 m west of the border to 10 m east of it
BorderGeometry(k) ==
  << << PtOut[1], PtOut[2] + k * Spacing >>, << PtIn[1], PtIn[2] + k * Spacing >> >>

\* n border segments, followed by the inner segments
FragmentedTable(n, tmpl, inner) ==
  [k \in 1 .. n |-> [tmpl EXCEPT !.geometry = BorderGeometry(k)]]
    \o [k \in 1 .. Len(inner) |-> [tmpl EXCEPT !.geometry = inner[k]]]

FragmentedTables ==
  { FragmentedTable(n, tmpl, inner) :
      n \in ComponentLimit - MaxOver .. ComponentLimit + MaxOver,
      tmpl \in TemplatePool,
      inner \in { << >> } \cup { << g >> : g \in InnerGeometries } }

\* sections 2 and 3 on a fragmented table: no two segment ends share a
\* coordinate, so the from-nodes get the ids 0 .. m-1 in row order, the
\* to-nodes the ids m .. 2m-1, and every key is 0
FragmentedRow(rows, i) ==
  LET r == SanitizeRow(rows[i])
  IN  [ u |-> i - 1,
        v |-> Len(rows) + i - 1,
        key |-> cumcount(rows, i),
        geometry   |-> r.geometry,
        length_m   |-> r.length_m,
        TRAFFICDIR |-> r.TRAFFICDIR,
        ROADCLASS  |-> r.ROADCLASS,
        PAVSURF    |-> r.PAVSURF,
        PAVSTATUS  |-> r.PAVSTATUS,
        safe_speed |-> r.safe_speed ]

FragmentedRows(rows) == [i \in 1 .. Len(rows) |-> FragmentedRow(rows, i)]

FragmentedNodes(rows) ==
  [id \in 0 .. 2 * Len(rows) - 1 |->
     IF id < Len(rows) THEN u_coord(rows[id + 1]) ELSE v_coord(rows[id - Len(rows) + 1])]

\* section 5 on a fragmented table: the segments share their TRAFFICDIR, so
\* every iteration of the loop makes the same number of add_edge calls
FragmentedCalls(rows) ==
  LET topo == FragmentedRows(rows)
      per  == Len(EmitCalls(topo[1]))
  IN  [c \in 1 .. per * Len(rows) |->
         EmitCalls(topo[((c - 1) \div per) + 1])[((c - 1) % per) + 1]]

\* the state after section 5 for a fragmented table
InitGuard ==
  /\ stage = "directed"
  /\ \E rows \in FragmentedTables :
       /\ roads_file = rows
       /\ gdf_roads = FragmentedRows(rows)
       /\ G_nodes = FragmentedNodes(rows)
       \* G.nodes: the two ends of row 1, then those of row 2, ...
       /\ G_order = [i \in 1 .. 2 * Len(rows) |->
                      IF i % 2 = 1 THEN (i - 1) \div 2 ELSE Len(rows) + (i - 2) \div 2]
       /\ add_calls = FragmentedCalls(rows)
       /\ G_edges = [c \in 1 .. Len(FragmentedCalls(rows)) |-> FragmentedCalls(rows)[c].edge]
  /\ consolidation = "pending"
  /\ RouteIdle
  /\ SelIdle
  /\ FetchIdle

NextGuard ==
  \/ Purge
  \/ Consolidate
  \/ CalculatePhysics

SpecGuard == InitGuard /\ [][NextGuard]_vars

\* the script runs its sections one after the other: a section that can run
\* does run
SpecGuardLive == SpecGuard /\ WF_vars(NextGuard)

(***************************************************************************)
(* Part V. Paged download of a MapServer layer (nrn_data_loader.py)        *)
(***************************************************************************)
\* largest number of features in a layer
MaxFeatures == 4
\* largest maxRecordCount of a layer
MaxPage == 2
\* largest max_retries passed to fetch_layer_data
MaxRetries == 3

\* the page size used when the layer information cannot be read (line 114);
\* also the default of layer_info.get('maxRecordCount', 1000)
FallbackCount == 1000

\* the server's answer to resultOffset = off, resultRecordCount = count: the
\* features off+1 .. off+n, at most count and at most the layer's
\* maxRecordCount of them
ServerPage(lyr, off, count) ==
  LET cap  == Min2(count, lyr.maxRecordCount)
      left == IF lyr.total > off THEN lyr.total - off ELSE 0
  IN  [i \in 1 .. Min2(cap, left) |-> off + i]

StopPaging_OnlyWhenEmpty(received, size) ==
  \* the bug: a partial page does not end the paging
  received = 0

\* line 166: an empty or a partial page ends the paging
StopPaging(received, size) == received = 0 \/ received < size

\* lines 170-179: None when nothing was received, else the GeoDataFrame
ReturnValue(features) ==
  IF features = << >> THEN [kind |-> "None"]
  ELSE [kind |-> "GeoDataFrame", features |-> features]

\* load_and_merge_all calls fetch_alleyways(), that is max_retries = 3; the
\* tests call fetch_layer_data with max_retries = 3 as well
InitFetch ==
  /\ layer \in [total : 0 .. MaxFeatures, maxRecordCount : 1 .. MaxPage]
  /\ max_retries \in 1 .. MaxRetries
  /\ max_rec = 0
  /\ offset = 0
  /\ all_features = << >>
  /\ attempt = 0
  /\ pages = << >>
  /\ requests_sent = 0
  /\ failed = 0
  /\ page_tries = 0
  /\ info_ok = FALSE
  /\ fetched = [kind |-> "pending"]
  /\ gdf_merged = "pending"
  /\ fetch_pc = "info"
  /\ RouteIdle
  /\ PipeIdle
  /\ SelIdle

\* lines 107-125: the layer information is read, or the fallback is used
FetchInfo ==
  /\ fetch_pc = "info"
  /\ \E ok \in BOOLEAN :
       /\ max_rec' = IF ok THEN layer.maxRecordCount ELSE FallbackCount
       /\ info_ok' = ok
  /\ offset' = 0
  /\ all_features' = << >>
  /\ attempt' = 0
  /\ fetch_pc' = "page"
  /\ UNCHANGED << layer, max_retries, pages, requests_sent, failed, page_tries, fetched,
                  gdf_merged >>
  /\ UNCHANGED << routeVars, pipeVars, selVars >>

\* lines 137-149 and 160-179: the request succeeds; the paging then stops and
\* the function returns, or goes on to the next page
RequestOK ==
  /\ fetch_pc = "page"
  /\ attempt < max_retries
  /\ LET feats    == ServerPage(layer, offset, max_rec)
         received == Len(feats)
     IN  /\ all_features' = all_features \o feats
         /\ pages' = Append(pages, feats)
         /\ IF StopPaging(received, max_rec)
            THEN /\ fetched' = ReturnValue(all_features \o feats)
                 /\ fetch_pc' = "returned"
                 /\ page_tries' = page_tries + 1
                 /\ UNCHANGED << offset, attempt >>
            ELSE /\ offset' = offset + received
                 /\ attempt' = 0
                 /\ page_tries' = 0
                 /\ UNCHANGED << fetched, fetch_pc >>
  /\ requests_sent' = requests_sent + 1
  /\ UNCHANGED << layer, max_retries, max_rec, failed, info_ok, gdf_merged >>
  /\ UNCHANGED << routeVars, pipeVars, selVars >>

RequestFail_AfterExtend ==
  \* the bug: the exception comes after all_features.extend(feats)
  /\ fetch_pc = "page"
  /\ attempt < max_retries
  /\ all_features' = all_features \o ServerPage(layer, offset, max_rec)
  /\ IF attempt < max_retries - 1
     THEN /\ attempt' = attempt + 1
          /\ UNCHANGED fetch_pc
     ELSE /\ fetch_pc' = "raised"
          /\ UNCHANGED attempt
  /\ requests_sent' = requests_sent + 1
  /\ failed' = failed + 1
  /\ page_tries' = page_tries + 1
  /\ UNCHANGED << layer, max_retries, max_rec, offset, pages, info_ok, fetched,
                  gdf_merged >>
  /\ UNCHANGED << routeVars, pipeVars, selVars >>

\* lines 150-155: requests.get or raise_for_status raises a RequestException;
\* the next attempt follows, or - on the last attempt - the exception is
\* raised again and leaves fetch_layer_data
RequestFail ==
  /\ fetch_pc = "page"
  /\ attempt < max_retries
  /\ IF attempt < max_retries - 1
     THEN /\ attempt' = attempt + 1
          /\ UNCHANGED fetch_pc
     ELSE /\ fetch_pc' = "raised"
          /\ UNCHANGED attempt
  /\ requests_sent' = requests_sent + 1
  /\ failed' = failed + 1
  /\ page_tries' = page_tries + 1
  /\ UNCHANGED << layer, max_retries, max_rec, offset, all_features, pages, info_ok,
                  fetched, gdf_merged >>
  /\ UNCHANGED << routeVars, pipeVars, selVars >>

\* load_and_merge_all, lines 640-650: fetch_alleyways returned
MergeAlleys ==
  /\ fetch_pc = "returned"
  /\ gdf_merged' = IF fetched.kind # "None" /\ Len(fetched.features) > 0
                   THEN "roads and alleyways" ELSE "roads only"
  /\ fetch_pc' = "merged"
  /\ UNCHANGED << layer, max_retries, max_rec, offset, all_features, attempt, pages,
                  requests_sent, failed, page_tries, info_ok, fetched >>
  /\ UNCHANGED << routeVars, pipeVars, selVars >>

\* the exception of line 155 passes through fetch_alleyways (line 192) and
\* load_and_merge_all (line 640), neither of which catches it
PropagateError ==
  /\ fetch_pc = "raised"
  /\ gdf_merged' = "exception"
  /\ fetch_pc' = "crashed"
  /\ UNCHANGED << layer, max_retries, max_rec, offset, all_features, attempt, pages,
                  requests_sent, failed, page_tries, info_ok, fetched >>
  /\ UNCHANGED << routeVars, pipeVars, selVars >>

NextFetch ==
  \/ FetchInfo
  \/ RequestOK
  \/ RequestFail
  \/ MergeAlleys
  \/ PropagateError

SpecFetch == InitFetch /\ [][NextFetch]_vars

(***************************************************************************)
(* Part II. Claims                                                         *)
(***************************************************************************)
\* the directionality loop has run
Resolved == stage \in {"directed", "purged", "consolidated", "final"}

\* the (from, to, key) of the add_edge calls made for the segment with the
\* given (u, v, key), in order
EmittedFor(t) ==
  LET mine == SelectSeq(add_calls, LAMBDA c : c.src = t)
  IN  [i \in 1 .. Len(mine) |-> Triple(mine[i].edge)]

C8_Forward == { S_SameDirection, S_Positive }

C8_Reverse == { S_OppositeDirection, S_Negative }

\* C8: for every segment (u, v, key) the directed edges emitted for it are
\* decided by its title-cased TRAFFICDIR: exactly u->v for Same Direction /
\* Positive, exactly v->u for Opposite Direction / Negative, and exactly
\* u->v and v->u for Both Directions, Both, Unknown and everything else.
C8_EdgesByTrafficDir ==
  Resolved =>
    \A i \in 1 .. Len(gdf_roads) :
      LET r  == gdf_roads[i]
          td == Title(r.TRAFFICDIR)
          fw == << r.u, r.v, r.key >>
          bw == << r.v, r.u, r.key >>
      IN  EmittedFor(Triple(r)) =
            IF td \in C8_Forward THEN << fw >>
            ELSE IF td \in C8_Reverse THEN << bw >>
            ELSE << fw, bw >>

Recognized == C8_Forward \cup C8_Reverse \cup { S_BothDirections, S_Both, S_Unknown }

C8_Witness ==
  /\ stage = "directed"
  /\ \E i, j \in 1 .. Len(gdf_roads) :
       /\ Title(gdf_roads[i].TRAFFICDIR) \notin Recognized
       /\ Title(gdf_roads[j].TRAFFICDIR) \in C8_Forward \cup C8_Reverse
       /\ Len(EmittedFor(Triple(gdf_roads[i]))) = 2
       /\ Len(EmittedFor(Triple(gdf_roads[j]))) = 1

\* the geometry of the segment an add_edge call was made for
SourceGeometry(c) ==
  gdf_roads[CHOOSE i \in 1 .. Len(gdf_roads) : Triple(gdf_roads[i]) = c.src].geometry

\* C9: every reverse edge emitted - for a bidirectional and for a
\* reverse-only segment alike - carries the segment's coordinates in
\* reversed order, and every forward edge carries them unchanged.
C9_Original ==
  Resolved =>
    \A i \in 1 .. Len(add_calls) :
      LET c == add_calls[i]
      IN  IF c.role = "reverse"
          THEN c.edge.geometry = ReverseCoords(SourceGeometry(c))
          ELSE c.edge.geometry = SourceGeometry(c)

\* C10: after topology building, after directionality resolution and in the
\* final graph every edge carries a geometry that starts at the position of
\* its node u and ends at the position of its node v.
C10_Original ==
  stage \in {"topology", "directed", "final"} =>
    \A i \in 1 .. Len(G_edges) :
      LET e == G_edges[i]
      IN  /\ "geometry" \in DOMAIN e
          /\ e.geometry[1] = G_nodes[e.u]
          /\ e.geometry[Len(e.geometry)] = G_nodes[e.v]

\* the topology has been built: the rows of gdf_roads carry u, v and key
Built == stage \notin {"loaded", "sanitized"}

\* the rows before row i that share its ordered (from-node, to-node) pair
EarlierOfPair(i) ==
  { j \in 1 .. i - 1 : gdf_roads[j].u = gdf_roads[i].u /\ gdf_roads[j].v = gdf_roads[i].v }

\* C11: every (from, to, key) triple is unique, and within each group of
\* segments sharing the same ordered (from-node, to-node) pair the keys are
\* 0, 1, ..., n-1 in input order: the key of a segment is the number of
\* earlier segments of its own ordered pair, whatever other pairs exist.
C11_KeysSequential ==
  Built =>
    /\ \A i, j \in 1 .. Len(gdf_roads) :
         i # j => Triple(gdf_roads[i]) # Triple(gdf_roads[j])
    /\ \A i \in 1 .. Len(gdf_roads) :
         gdf_roads[i].key = Cardinality(EarlierOfPair(i))

C11_Witness ==
  /\ stage = "topology"
  /\ \E i, j \in 1 .. Len(gdf_roads) :
       /\ i < j
       /\ gdf_roads[i].u = gdf_roads[j].u /\ gdf_roads[i].v = gdf_roads[j].v
       /\ gdf_roads[i].key = 0 /\ gdf_roads[j].key = 1

\* the rounded end points of the segments, as (row, end) -> coordinate
EndCoord(i, end) ==
  IF end = "u" THEN RoundPoint(gdf_roads[i].geometry[1])
  ELSE RoundPoint(gdf_roads[i].geometry[Len(gdf_roads[i].geometry)])

EndId(i, end) == IF end = "u" THEN gdf_roads[i].u ELSE gdf_roads[i].v

Ends == (1 .. Len(gdf_roads)) \X {"u", "v"}

\* the node ids of the graph are exactly 0 .. N-1
Dense == DOMAIN G_nodes = 0 .. Cardinality(DOMAIN G_nodes) - 1

\* C12: the N distinct rounded end-point coordinates get exactly the ids
\* 0..N-1, two segment ends share an id if and only if their rounded
\* coordinates are equal, and the node set of the graph is dense at every
\* stage from topology building through purging and consolidation to the
\* final graph.
C12_Original ==
  Built =>
    /\ \A a, b \in Ends :
         (EndId(a[1], a[2]) = EndId(b[1], b[2])) <=> (EndCoord(a[1], a[2]) = EndCoord(b[1], b[2]))
    /\ { EndId(a[1], a[2]) : a \in Ends } =
         0 .. Cardinality({ EndCoord(a[1], a[2]) : a \in Ends }) - 1
    /\ Dense

\* edge i of the hop is the fastest and the first of the fastest
FirstFastest(i) ==
  /\ \A j \in 1 .. Len(edges) : TravelTimeKey(edges[i]) <= TravelTimeKey(edges[j])
  /\ \A j \in 1 .. i - 1 : TravelTimeKey(edges[j]) > TravelTimeKey(edges[i])

\* C13: among the parallel edges of a hop the edge used is one of minimum
\* travel_time (a missing travel_time counting as +infinity), and among the
\* edges tied for the minimum the first in iteration order; the flattening
\* to one edge per node pair keeps the same edge.
C13_FirstFastestEdge ==
  /\ sel_pc = "picked" =>
       \E i \in 1 .. Len(edges) :
         /\ FirstFastest(i)
         /\ best_key = edges[i].key
         /\ hop.d = edges[i].data.length
         /\ hop.t = IF TravelTimeKey(edges[i]) = Infinity THEN 0 ELSE TravelTimeKey(edges[i])
  /\ sel_pc = "flat" =>
       \E i \in 1 .. Len(edges) :
         /\ FirstFastest(i)
         /\ best_edges = << edges[i].data >>

C13_Witness ==
  /\ sel_pc = "picked"
  /\ Len(edges) = 3
  /\ TravelTimeKey(edges[1]) = Infinity
  /\ TravelTimeKey(edges[2]) = TravelTimeKey(edges[3])
  /\ TravelTimeKey(edges[2]) < Infinity
  /\ edges[2].key > edges[3].key
  /\ best_key = edges[2].key

\* the ferry bonus of an edge of the final graph, in 0.001 min
FerryBonus(e) == IF e.ROADCLASS = "Ferry" THEN FerryWait ELSE 0

\* 5 * speed_kph * (((length / 1000) / speed_kph) * 60 + bonus), in 0.001 min,
\* from the length (0.01 m) and the speed (0.1 km/h) stored on the edge
FormulaTimes5Speed(e) == 30 * e.length + FerryBonus(e) * 5 * e.speed_kph

\* C14: for every edge of the final graph travel_time equals
\* ((length / 1000) / speed_kph) * 60 plus the ferry bonus (30 min for a
\* ferry edge, 0 otherwise), computed from the length and the final speed
\* stored on that same edge, to within the rounding precision of the stored
\* travel_time (0.001 min).
C14_TravelTimeFormula ==
  stage = "final" =>
    \A i \in 1 .. Len(G_edges) :
      LET e == G_edges[i]
      IN  /\ e.speed_kph > 0
          /\ Abs(e.travel_time * 5 * e.speed_kph - FormulaTimes5Speed(e)) <= 5 * e.speed_kph

C14_Witness ==
  /\ stage = "final"
  /\ \E i, j \in 1 .. Len(G_edges) :
       /\ G_edges[i].ROADCLASS = "Ferry"
       /\ G_edges[i].length = 20008
       /\ G_edges[i].travel_time = 31201
       /\ G_edges[j].ROADCLASS # "Ferry"
       /\ G_edges[j].PAVSURF = "Gravel"
       /\ G_edges[j].travel_time > 0

\* an edge whose road class or surface indicates ferry / water: the edges that
\* receive the ferry speed override
FerryEdge(e) == e.ROADCLASS = "Ferry" \/ e.PAVSURF = "Water"

\* C15: the fixed 30-minute wait is added to every ferry edge and to ferry
\* edges only, a ferry edge being one whose road class or surface indicates
\* ferry / water, and it is added to the distance-based time: the travel_time
\* of a ferry edge is its distance-based time at the forced 10 km/h plus 30
\* min, that of any other edge its distance-based time alone.
C15_Original ==
  stage = "final" =>
    \A i \in 1 .. Len(G_edges) :
      LET e    == G_edges[i]
          wait == IF FerryEdge(e) THEN FerryWait ELSE 0
      IN  /\ FerryEdge(e) => e.speed_kph = FloorSpeed
          /\ Abs((e.travel_time - wait) * 5 * e.speed_kph - 30 * e.length) <= 5 * e.speed_kph

\* a posted speed that is present but outside the sane bound
OutOfBound(speed) == speed > 0 /\ (speed > 130 \/ speed < 5)

\* C16: a posted speed that is present but outside the sane bound (> 130 or
\* < 5) is treated as missing: the base speed of the segment becomes the
\* default of its road class (40 for an unrecognized class).
C16_Original ==
  [][ (stage = "loaded" /\ stage' = "sanitized") =>
        \A i \in 1 .. Len(gdf_roads) :
          OutOfBound(gdf_roads[i].SPEED) =>
            gdf_roads'[i].safe_speed = DefaultSpeed(gdf_roads[i].ROADCLASS) ]_vars

\* C17: after SPEED validation and clipping every posted speed that is still
\* treated as present (value > 0) lies in 10..130 km/h, whatever the input
\* speed was.
C17_Original ==
  [][ (stage = "loaded" /\ stage' = "sanitized") =>
        \A i \in 1 .. Len(gdf_roads) :
          ValidateSpeed(gdf_roads[i].SPEED) > 0 =>
            /\ gdf_roads'[i].safe_speed = ValidateSpeed(gdf_roads[i].SPEED)
            /\ gdf_roads'[i].safe_speed >= 10
            /\ gdf_roads'[i].safe_speed <= 130 ]_vars

\* C18: the final speed of every edge is at least the configured minimum
\* (10 km/h): a speed that base-speed selection and the surface penalty leave
\* below the minimum is clamped up to it before the travel time is computed.
C18_Original ==
  stage = "final" =>
    \A i \in 1 .. Len(G_edges) :
      /\ G_edges[i].speed_kph >= FloorSpeed
      /\ Abs(G_edges[i].travel_time * 5 * G_edges[i].speed_kph - FormulaTimes5Speed(G_edges[i]))
           <= 5 * G_edges[i].speed_kph

\* C19: every edge of the final graph has length > 0, speed_kph > 0 and
\* travel_time >= 0, for every table the pipeline accepts, including road
\* classes whose default speed is 0.
C19_PositiveWeights ==
  stage = "final" =>
    \A i \in 1 .. Len(G_edges) :
      /\ G_edges[i].length > 0
      /\ G_edges[i].speed_kph > 0
      /\ G_edges[i].travel_time >= 0

C19_Witness ==
  /\ stage = "final"
  /\ \E i, j \in 1 .. Len(G_edges) :
       /\ G_edges[i].ROADCLASS = "Rapid Transit"
       /\ G_edges[i].speed_kph = FloorSpeed
       /\ G_edges[j].length = 86
       /\ G_edges[j].travel_time = 0

\* a position inside the valid envelope, borders included
InEnvelope(pos) ==
  /\ XMin <= pos[1] /\ pos[1] <= XMax
  /\ YMin <= pos[2] /\ pos[2] <= YMax

\* C20: every node of the final graph lies inside the valid envelope (x in
\* 200000..1900000, y in 300000..1700000): the purge removes every node
\* outside it, and neither consolidation nor the physics stage brings one in.
C20_NodesInEnvelope ==
  stage \in {"purged", "consolidated", "final"} =>
    \A n \in DOMAIN G_nodes : InEnvelope(G_nodes[n])

C20_Witness ==
  /\ stage = "final"
  /\ \E a \in Ends : ~InEnvelope(EndCoord(a[1], a[2]))
  /\ Cardinality(DOMAIN G_nodes) = 2
  /\ Len(G_edges) = 0
  /\ \E n \in DOMAIN G_nodes : G_nodes[n] = << 500010000, 500000000 >>

\* a graph exists: from graph creation (section 4) onwards
GraphExists == stage \in {"topology", "directed", "purged", "consolidated", "final"}

\* C21: at every stage from graph creation to the final graph - after
\* directionality resolution, after the purge and after consolidation - both
\* end points of every edge are nodes of the graph; in particular the purge
\* removes every edge incident to a node it removes.
C21_EdgesReferenceNodes ==
  GraphExists =>
    \A i \in 1 .. Len(G_edges) :
      /\ G_edges[i].u \in DOMAIN G_nodes
      /\ G_edges[i].v \in DOMAIN G_nodes

\* a node outside the envelope was purged together with its two edges, the
\* other segment's nodes were merged or kept, and edges are left at the end
C21_Witness ==
  /\ stage = "final"
  /\ \E c \in 1 .. Len(add_calls) :
       /\ add_calls[c].edge.u = 0
       /\ TopologyNodes(gdf_roads)[0] = RoundPoint(PtOut)
  /\ 0 \notin DOMAIN G_nodes
  /\ Len(G_edges) = 2

\* the number of weakly connected components of the graph
Fragments == Cardinality(WeakComponents(G_edges, DOMAIN G_nodes))

\* the step of section 6 that follows the purge
C22_Step ==
  stage = "purged" =>
    /\ stage' = "consolidated"
    /\ Fragments > 50 =>
         /\ consolidation' = "skipped"
         /\ G_nodes' = G_nodes /\ G_edges' = G_edges
    /\ Fragments <= 50 => consolidation' \in {"complete", "failed"}
    /\ consolidation' = "failed" => (G_nodes' = G_nodes /\ G_edges' = G_edges)

\* C22: consolidation never fails or hangs the pipeline: with more than 50
\* weakly connected components it is skipped and the graph goes on unchanged;
\* otherwise it is attempted and, if it raises, the unconsolidated graph is
\* used; in every case the purged graph reaches the cost model.
C22_ConsolidationGuard ==
  /\ [][C22_Step]_vars
  /\ (stage = "purged") ~> (stage = "final" /\ consolidation # "pending")

C22_Witness ==
  /\ stage = "final"
  /\ consolidation = "skipped"
  /\ Fragments = 51
  /\ Len(G_edges) = 2
  /\ Cardinality(DOMAIN G_nodes) = 52

\* ---- claims about the paged download ---------------------------------------
RECURSIVE Concat(_)
\* the pages laid end to end
Concat(ps) == IF ps = << >> THEN << >> ELSE Head(ps) \o Concat(Tail(ps))

RECURSIVE SumSizes(_)
\* the sum of the page sizes
SumSizes(ps) == IF ps = << >> THEN 0 ELSE Len(Head(ps)) + SumSizes(Tail(ps))

Full(page) == Len(page) = max_rec

FetchReturned == fetch_pc \in { "returned", "merged" }

\* C24: fetch_layer_data asks for the next page as long as every page received
\* is full (as many features as the page size in use), stops after the first
\* page that is empty or partial, makes one data request per page when no
\* request fails, and returns the features of all the pages received, in
\* order; their number is the sum of the page sizes (None stands for none).
C24_Paging ==
  /\ \A i \in 1 .. Len(pages) - 1 : Full(pages[i])
  /\ fetch_pc = "page" => \A i \in 1 .. Len(pages) : Full(pages[i])
  /\ FetchReturned =>
       /\ pages # << >>
       /\ ~Full(pages[Len(pages)])
       /\ IF SumSizes(pages) = 0
          THEN fetched.kind = "None"
          ELSE /\ fetched.kind = "GeoDataFrame"
               /\ fetched.features = Concat(pages)
               /\ Len(fetched.features) = SumSizes(pages)
  /\ failed = 0 => requests_sent = Len(pages)

\* a full page and a partial one, no request failed
C24_Witness ==
  /\ fetch_pc = "returned"
  /\ info_ok
  /\ failed = 0
  /\ requests_sent = 2
  /\ pages = << << 1, 2 >>, << 3 >> >>
  /\ fetched = [kind |-> "GeoDataFrame", features |-> << 1, 2, 3 >>]

\* C25 as stated: fetch_layer_data never lets an exception out; when a page
\* request fails max_retries times it returns None, and load_and_merge_all
\* goes on with the main roads only.
C25_Original ==
  /\ fetch_pc # "raised"
  /\ gdf_merged # "exception"

\* C30: at the start of every page request the offset is the number of
\* features accumulated, and the features accumulated are the records
\* 1 .. offset of the layer, each once; a failed attempt adds no feature; no
\* page is requested more than max_retries times.
C30_Step ==
  /\ failed' > failed => all_features' = all_features
  /\ (requests_sent' > requests_sent /\ failed' = failed) =>
        /\ Len(all_features') = Len(all_features) + Len(pages'[Len(pages')])
        /\ \A i \in 1 .. Len(all_features) : all_features'[i] = all_features[i]

C30_OffsetAndRetries ==
  /\ [][C30_Step]_vars
  /\ [](fetch_pc = "page" => offset = Len(all_features))
  /\ [](\A i \in 1 .. Len(all_features) : all_features[i] = i)
  /\ [](page_tries <= max_retries)

\* the second page succeeded on the last of three attempts
C30_Witness ==
  /\ fetch_pc = "returned"
  /\ max_retries = 3
  /\ page_tries = 3
  /\ failed = 2
  /\ Len(pages) = 2
  /\ offset = 2
  /\ all_features = << 1, 2, 3 >>

\* ---- claims about the directionality loop ----------------------------------
OneWaySegments ==
  Cardinality({ i \in 1 .. Len(gdf_roads) :
                  Title(gdf_roads[i].TRAFFICDIR) \in ForwardOnly \cup ReverseOnly })

BidirectionalSegments == Len(gdf_roads) - OneWaySegments

\* the calls that wrote the edge (u, v, key) = t
Writers(t) == { c \in 1 .. Len(add_calls) : Triple(add_calls[c].edge) = t }

\* C26 as stated: after the directionality loop the graph has one edge for
\* every one-way segment and two for every bidirectional one, and every
\* (from, to, key) of the graph was written by exactly one segment in one
\* direction: no add_edge call lands on an edge written by another call.
C26_Original ==
  stage = "directed" =>
    /\ Len(G_edges) = OneWaySegments + 2 * BidirectionalSegments
    /\ \A i \in 1 .. Len(G_edges) : Cardinality(Writers(Triple(G_edges[i]))) = 1

\* ---- claims about the route aggregates -------------------------------------
\* the parallel edges from u to v of least travel_time
MinTimeEdges(u, v) ==
  { e \in G.edges : /\ e.u = u /\ e.v = v
                    /\ \A f \in G.edges : (f.u = u /\ f.v = v) => e.travel_time <= f.travel_time }

\* the edge the selection rule takes for the hop: the first of them
Selected(u, v) ==
  CHOOSE e \in MinTimeEdges(u, v) : \A f \in MinTimeEdges(u, v) : e.key <= f.key

RECURSIVE LengthFrom(_, _)
\* the selected lengths of the hops i, i+1, ... of route r, in 0.01 m
LengthFrom(r, i) ==
  IF i >= Len(r) THEN 0 ELSE Selected(r[i], r[i + 1]).length + LengthFrom(r, i + 1)

RECURSIVE TimeFrom(_, _)
\* the selected travel times of the hops i, i+1, ... of route r, in 0.001 min
TimeFrom(r, i) ==
  IF i >= Len(r) THEN 0 ELSE Selected(r[i], r[i + 1]).travel_time + TimeFrom(r, i + 1)

\* C27: for every returned path the reported distance is the sum, over the
\* consecutive hops, of the selected edge's length (metres / 1000 = km) and
\* the reported time is the sum of the selected edges' travel_time; a path
\* of a single node reports 0 km and 0 minutes; the three hops of
\* test_distance_calculation, 728.49 m each at 40, 60 and 110 km/h, report
\* 3 * 728.49 m = 2.185 km and 1.093 + 0.728 + 0.397 = 2.218 minutes.
C27_RouteAggregates ==
  \A s \in Slots :
    all_routes[s] # None =>
      /\ all_distances[s] = LengthFrom(all_routes[s], 1)
      /\ all_times[s] = TimeFrom(all_routes[s], 1)
      /\ Len(all_routes[s]) = 1 => (all_distances[s] = 0 /\ all_times[s] = 0)
      /\ (G = GraphC /\ Len(all_routes[s]) = 4) =>
            (all_distances[s] = 218547 /\ all_times[s] = 2218)

\* the three-hop example and a single-node path have been reported
C27_Witness ==
  /\ pc = "done"
  /\ G = GraphC
  /\ \E s, t \in Slots :
       /\ all_routes[s] = << 3, 2, 1, 0 >>
       /\ all_distances[s] = 218547
       /\ all_times[s] = 2218
       /\ all_routes[t] = << 1 >>
       /\ all_distances[t] = 0
       /\ all_times[t] = 0

\* the least travel_time among the parallel edges from u to v
FastestParallel(u, v) == SetMin({ e.travel_time : e \in MinTimeEdges(u, v) })

RECURSIVE WalkTimes(_, _, _)
\* the costs of the directed walks from o to d of at most k hops, each hop
\* costed at the least travel_time among its parallel edges
WalkTimes(o, d, k) ==
  IF k = 0 THEN (IF o = d THEN {0} ELSE {})
  ELSE WalkTimes(o, d, k - 1) \cup
       UNION { { c + FastestParallel(m, d) : c \in WalkTimes(o, m, k - 1) } :
                 m \in { n \in G.nodes : MinTimeEdges(n, d) # {} } }

\* a cheapest path has no repeated node, so at most |nodes| - 1 hops
LeastTime(o, d) == SetMin(WalkTimes(o, d, Cardinality(G.nodes) - 1))

\* C28: for every query that got a path, in the table the report is made
\* from, the path leads from the origin to the destination and the reported
\* time is the least travel-time cost over all directed paths between them:
\* no path is cheaper than what is reported.
C28_TimeIsMinimum ==
  \A s \in Slots :
    (Collected /\ all_routes[s] # None) =>
      /\ all_routes[s][1] = trips_df[s][1]
      /\ all_routes[s][Len(all_routes[s])] = trips_df[s][2]
      /\ all_times[s] = LeastTime(trips_df[s][1], trips_df[s][2])

\* a query with a direct edge and a cheaper path over two hops, one of them
\* with parallel edges, reported the cheaper path's time
C28_Witness ==
  /\ pc = "done"
  /\ G = GraphA
  /\ \E s \in Slots :
       /\ trips_df[s] = << 0, 2 >>
       /\ all_routes[s] = << 0, 1, 2 >>
       /\ all_times[s] = 1823

\* ---- claims about the termination of the batch -----------------------------
\* how far chunk c has come
Progress(t) ==
  CASE t = "queued"    -> 0
    [] t = "running"   -> 1
    [] t = "returned"  -> 2
    [] t = "collected" -> 3
    [] OTHER           -> 4

NullSlots == { s \in DOMAIN all_distances : all_distances[s] = NaN }

ResultSlots == { s \in DOMAIN all_distances : all_distances[s] # NaN }

\* a step dispatches or collects a chunk at most once: a chunk only moves
\* forward, one stage at a time; completed never decreases, and grows exactly
\* by the size of the chunk the step collected
C29_Step ==
  /\ \A c \in DOMAIN task :
       /\ Progress(task'[c]) >= Progress(task[c])
       /\ Progress(task'[c]) <= Progress(task[c]) + 1
  /\ completed' >= completed
  /\ completed' # completed =>
       /\ Len(arrival') = Len(arrival) + 1
       /\ completed' = completed + Len(chunks[arrival'[Len(arrival')]])

\* C29: when every chunk computation returns, the batch terminates: every
\* chunk is dispatched and collected exactly once, completed only grows (by
\* the size of each collected chunk) and never exceeds TOTAL_TRIPS, and when
\* the collection loop has ended completed = TOTAL_TRIPS and the null and
\* non-null result slots together are TOTAL_TRIPS.
C29_BatchTerminates ==
  /\ [][C29_Step]_vars
  /\ [](completed <= TOTAL_TRIPS)
  /\ [](\A i, j \in 1 .. Len(arrival) : i # j => arrival[i] # arrival[j])
  /\ [](Collected =>
          /\ completed = TOTAL_TRIPS
          /\ \A c \in DOMAIN task : task[c] = "collected"
          /\ Len(arrival) = Len(chunks)
          /\ Cardinality(NullSlots) + Cardinality(ResultSlots) = TOTAL_TRIPS)
  /\ <>(pc = "done")

\* three chunks collected out of submission order, with a null slot
C29_Witness ==
  /\ pc = "done"
  /\ completed = 3
  /\ Len(arrival) = 3
  /\ OutOfOrder
  /\ NullSlots # {}
  /\ ResultSlots # {}

====
